---- MODULE Spec2Model ----
(***************************************************************************)
(* A model of the react-mini Fiber reconciler (src/src/core/fiber.ts, the  *)
(* second, complete copy of the file: lines 678-1465) and of the hooks it  *)
(* drives (src/src/core/hooks.ts).                                         *)
(*                                                                         *)
(* The heap of FiberNode objects, the hook arrays and the host (DOM) tree  *)
(* are sequences indexed by object identity; a pointer is an index and     *)
(* NULL is the null pointer.  Every function of the source is an operator  *)
(* from a program state (a record of all module-level variables and heaps) *)
(* to the program state after the call.  Loops of the source carry a fuel  *)
(* argument: a loop that does not end within the fuel marks the state      *)
(* "hung" (the single JS thread never returns from the handler).           *)
(***************************************************************************)
EXTENDS Integers, Sequences, FiniteSets, TLC

NULL == 0

\* ------------------------------------------------------------------ bounds
\* The number of setState calls (after the mount) a behaviour may make.
MaxUpdates == 2
\* The iterations any single loop of the source may make before the handler
\* is taken to hang; far above what a terminating pass over the modelled
\* trees needs.
Fuel == 30

\* ------------------------------------------------------------ Flags / Lanes
NoFlags == 0
Placement == 1
Update == 2
Deletion == 4

NoLanes == 0
UserBlockingLane == 1
HighLane == 2
NormalLane == 4
LowLane == 8
IdleLane == 16

HasBit(x, b) == (x \div b) % 2 = 1
\* a | b on the five-bit masks the program uses
mergeLanes(a, b) ==
  LET bit(k) == IF HasBit(a, k) \/ HasBit(b, k) THEN k ELSE 0
  IN bit(1) + bit(2) + bit(4) + bit(8) + bit(16)
\* flags |= bit
OrFlag(f, b) == mergeLanes(f, b)

LanePriorityOrder == <<1, 2, 4, 8, 16>>

RECURSIVE HighestFrom(_, _)
HighestFrom(lanes, i) ==
  IF i > Len(LanePriorityOrder) THEN 0
  ELSE IF HasBit(lanes, LanePriorityOrder[i]) THEN LanePriorityOrder[i]
  ELSE HighestFrom(lanes, i + 1)

getHighestPriorityLane(lanes) == HighestFrom(lanes, 1)

isSyncLane(lane) == lane = 1 \/ lane = 2

\* ------------------------------------------------- descriptions (VNode values)
\* A description is a record of fixed shape.  kind "elem": type, key ("" when
\* the element has no key), attribute v ("" when absent), the onClick
\* function on (a function is known by its identity, NULL when absent),
\* children array kids with its identity ref (arrays are compared by
\* reference in the source).
\* kind "text": a string child.  kind "null": a null child.
NoKey == ""
Components == {"App", "Item"}

Elem(type, key, v, ref, kids) ==
  [kind |-> "elem", type |-> type, key |-> key, v |-> v, text |-> "",
   ref |-> IF kids = <<>> THEN 0 ELSE ref, kids |-> kids, on |-> 0]
TextLeaf(t) ==
  [kind |-> "text", type |-> "", key |-> NoKey, v |-> "", text |-> t, ref |-> 0, kids |-> <<>>,
   on |-> 0]
NullChild ==
  [kind |-> "null", type |-> "", key |-> NoKey, v |-> "", text |-> "", ref |-> 0, kids |-> <<>>,
   on |-> 0]

\* createElement(type, { ...props, onClick: fn }, ...children)
WithClick(vnode, fn) == [vnode EXCEPT !.on = fn]

\* Props values: null, a string (the payload of a Text fiber) or an object
\* with the optional entries key, v, onClick and children.
NullProps ==
  [kind |-> "null", key |-> NoKey, v |-> "", text |-> "", ref |-> 0, kids |-> <<>>, on |-> 0]
TextProps(t) ==
  [kind |-> "text", key |-> NoKey, v |-> "", text |-> t, ref |-> 0, kids |-> <<>>, on |-> 0]
ObjProps(key, v, ref, kids) ==
  [kind |-> "obj", key |-> key, v |-> v, text |-> "",
   ref |-> IF kids = <<>> THEN 0 ELSE ref, kids |-> kids, on |-> 0]

\* wrapProps(vnode): the element's props with its children array under "children"
wrapProps(vnode) ==
  IF vnode.kind = "null" THEN ObjProps(NoKey, "", 0, <<>>)
  ELSE [ObjProps(vnode.key, vnode.v, vnode.ref, vnode.kids) EXCEPT !.on = vnode.on]

Truthy(p) == p.kind = "obj" \/ (p.kind = "text" /\ p.text # "")

\* Object.keys(p) of an object props value
Keys(p) == (IF p.key # NoKey THEN {"key"} ELSE {})
           \cup (IF p.v # "" THEN {"v"} ELSE {})
           \cup (IF p.on # 0 THEN {"onClick"} ELSE {})
           \cup (IF p.kids # <<>> THEN {"children"} ELSE {})

\* a[k] === b[k] for a key k of a (b[k] is undefined when b lacks k)
SameEntry(a, b, k) ==
  /\ k \in Keys(b)
  /\ CASE k = "key" -> a.key = b.key
       [] k = "v" -> a.v = b.v
       [] k = "onClick" -> a.on = b.on
       [] OTHER -> a.ref = b.ref

shallowEqual(a, b) ==
  IF a = b THEN TRUE
  ELSE IF ~Truthy(a) \/ ~Truthy(b) THEN FALSE
  ELSE IF a.kind # "obj" \/ b.kind # "obj" THEN FALSE
  ELSE /\ Cardinality(Keys(a)) = Cardinality(Keys(b))
       /\ \A k \in Keys(a) : SameEntry(a, b, k)

shallowEqualExceptChildren(a, b) ==
  IF a = b THEN TRUE
  ELSE IF ~Truthy(a) \/ ~Truthy(b) THEN FALSE
  ELSE IF a.kind # "obj" \/ b.kind # "obj" THEN FALSE
  ELSE LET ka == Keys(a) \ {"children"}
           kb == Keys(b) \ {"children"}
       IN /\ Cardinality(ka) = Cardinality(kb)
          /\ \A k \in ka : k \in kb /\ SameEntry(a, b, k)

\* --------------------------------------------------------------- the heaps
createFiber(tag, pendingProps, key) ==
  [tag |-> tag, type |-> "", key |-> key, stateNode |-> NULL, return |-> NULL,
   child |-> NULL, sibling |-> NULL, alternate |-> NULL,
   pendingProps |-> pendingProps, memoizedProps |-> NullProps,
   flags |-> NoFlags, subtreeFlags |-> NoFlags, effectNext |-> NULL,
   hooks |-> NULL, oldIndex |-> -1]

\* A new FiberNode object: its identity is the next index of the heap.
\* pushPass records, per fiber, the render pass that last put it on the
\* effect list (0: never).
AllocFiber(s, f) ==
  [s EXCEPT !.fibers = Append(@, f), !.pushPass = Append(@, 0),
            !.bornPass = Append(@, s.passId)]

\* a createWorkInProgress that never finds an alternate
AlwaysFresh(s, current) == TRUE

\* if (!wip), for wip = current.alternate
NoAlternate(s, current) == s.fibers[current].alternate = NULL

\* the node createWorkInProgress(current, ...) returns: the alternate, or the
\* node it allocates
WipOf(s, current) ==
  IF NoAlternate(s, current) THEN Len(s.fibers) + 1
  ELSE s.fibers[current].alternate

\* a reuse that leaves the side-effect bits and the effect-list pointer
KeepEffects(wip, pendingProps, type) ==
  [wip EXCEPT !.pendingProps = pendingProps, !.type = type]

\* the reuse branch: pendingProps, flags, subtreeFlags and effectNext are
\* reset, then wip.type = current.type (fiber.ts 795-800)
ResetWip(wip, pendingProps, type) ==
  [wip EXCEPT !.pendingProps = pendingProps,
              !.flags = NoFlags,
              !.subtreeFlags = NoFlags,
              !.effectNext = NULL,
              !.type = type]

\* a null check that lets the call return
NoThrow(s) == s

\* throw new Error(...): the handler is left at once
Throw(s) == [s EXCEPT !.threw = TRUE]

\* a createWorkInProgress whose new working copy of a host element or text
\* leaf does not take over the host object of the node it copies
createWithoutHost(s, current, pendingProps) ==
  IF current = NULL THEN Throw(s)
  ELSE
    LET cur == s.fibers[current] IN
    IF NoAlternate(s, current) THEN
      [AllocFiber(s, [createFiber(cur.tag, pendingProps, cur.key) EXCEPT
                        !.stateNode = IF cur.tag = "HostRoot" THEN cur.stateNode ELSE NULL,
                        !.alternate = current, !.type = cur.type])
         EXCEPT !.fibers[current].alternate = Len(s.fibers) + 1]
    ELSE
      [s EXCEPT !.fibers[cur.alternate] = ResetWip(@, pendingProps, cur.type)]

\* the state after createWorkInProgress(current, pendingProps)
createWorkInProgress(s, current, pendingProps) ==
  IF current = NULL THEN Throw(s)
  ELSE
    LET cur == s.fibers[current] IN
    IF NoAlternate(s, current) THEN
      [AllocFiber(s, [createFiber(cur.tag, pendingProps, cur.key) EXCEPT
                        !.stateNode = cur.stateNode, !.alternate = current,
                        !.type = cur.type])
         EXCEPT !.fibers[current].alternate = Len(s.fibers) + 1]
    ELSE
      [s EXCEPT !.fibers[cur.alternate] = ResetWip(@, pendingProps, cur.type)]

\* ------------------------------------------------------------ the host tree
\* A host object: an element (its tag), a text node (tag "#text", its data)
\* or the container (dom[1]).  parent/children are the attachment state.
\* click holds the listeners of the click event, in the order they were added.
HostNode(tag, data) ==
  [tag |-> tag, parent |-> NULL, children |-> <<>>, data |-> data, v |-> "", click |-> <<>>]

RemoveAt(seq, x) == SelectSeq(seq, LAMBDA y : y # x)

RECURSIVE IsInclusiveAncestor(_, _, _, _)
\* node.contains(other): other is node or a descendant of node
IsInclusiveAncestor(dom, node, other, fuel) ==
  IF other = NULL \/ fuel = 0 THEN FALSE
  ELSE IF other = node THEN TRUE
  ELSE IsInclusiveAncestor(dom, node, dom[other].parent, fuel - 1)

domContains(s, node, other) == IsInclusiveAncestor(s.dom, node, other, Len(s.dom) + 1)

\* the node is put before the children of parent instead of after them
prependChild(s, parent, node) ==
  IF node = NULL \/ domContains(s, node, parent) THEN [s EXCEPT !.threw = TRUE]
  ELSE
    LET old == s.dom[node].parent
        d1 == IF old = NULL THEN s.dom
              ELSE [s.dom EXCEPT ![old].children = RemoveAt(@, node)]
        d2 == [d1 EXCEPT ![parent].children = <<node>> \o @, ![node].parent = parent]
    IN [s EXCEPT !.dom = d2]

\* parent.appendChild(node): node leaves its present parent first
appendChild(s, parent, node) ==
  IF node = NULL \/ domContains(s, node, parent) THEN [s EXCEPT !.threw = TRUE]
  ELSE
    LET old == s.dom[node].parent
        d1 == IF old = NULL THEN s.dom
              ELSE [s.dom EXCEPT ![old].children = RemoveAt(@, node)]
        d2 == [d1 EXCEPT ![parent].children = Append(@, node), ![node].parent = parent]
    IN [s EXCEPT !.dom = d2]

\* parent.removeChild(node): NotFoundError unless node is a child of parent
removeChild(s, parent, node) ==
  IF s.dom[node].parent # parent THEN [s EXCEPT !.threw = TRUE]
  ELSE [s EXCEPT !.dom = [@ EXCEPT ![parent].children = RemoveAt(@, node),
                                   ![node].parent = NULL]]

\* el.removeEventListener('click', fn)
removeEventListener(listeners, fn) == RemoveAt(listeners, fn)

\* el.addEventListener('click', fn): a function already listening is not
\* added again
addEventListener(listeners, fn) ==
  IF \E i \in 1..Len(listeners) : listeners[i] = fn THEN listeners ELSE Append(listeners, fn)

\* updateHostComponentProps for the plain attribute v and the onClick
\* listener (children, key and style are skipped by the source as well):
\* the loop over oldProps (fiber.ts 1331-1341), then the loop over newProps
\* (1343-1355)
updateHostComponentProps(s, el, oldProps, newProps) ==
  LET v1 == IF oldProps.v # "" /\ newProps.v = "" THEN "" ELSE s.dom[el].v
      c1 == IF oldProps.on # 0 /\ newProps.on = 0
            THEN removeEventListener(s.dom[el].click, oldProps.on) ELSE s.dom[el].click
      v2 == IF newProps.v # "" /\ oldProps.v # newProps.v THEN newProps.v ELSE v1
      c2 == IF newProps.on # 0 /\ oldProps.on # newProps.on
            THEN addEventListener(IF oldProps.on # 0
                                  THEN removeEventListener(c1, oldProps.on) ELSE c1,
                                  newProps.on)
            ELSE c1
  IN [s EXCEPT !.dom[el].v = v2, !.dom[el].click = c2]

\* ------------------------------------------------------------- effect list
pushEffect(s, fiber) ==
  IF ~s.root.exists THEN s
  ELSE
    LET s1 == IF s.root.firstEffect = NULL
              THEN [s EXCEPT !.root.firstEffect = fiber]
              ELSE [s EXCEPT !.fibers[s.root.lastEffect].effectNext = fiber]
    IN [s1 EXCEPT !.root.lastEffect = fiber, !.pushPass[fiber] = s.passId]

\* ------------------------------------------------------ reconcileChildren
\* Map<key, FiberNode> in insertion order
MapHas(m, k) == \E i \in 1..Len(m) : m[i].k = k
MapGet(m, k) == IF MapHas(m, k) THEN m[CHOOSE i \in 1..Len(m) : m[i].k = k].f ELSE NULL
MapSet(m, k, f) ==
  IF MapHas(m, k)
  THEN [i \in 1..Len(m) |-> IF m[i].k = k THEN [k |-> k, f |-> f] ELSE m[i]]
  ELSE Append(m, [k |-> k, f |-> f])

RECURSIVE OldKeyMap(_, _, _, _)
\* while (of) { if (of.key != null) { ...; oldKeyMap.set(of.key, of) } of = of.sibling }
OldKeyMap(s, of, m, fuel) ==
  IF of = NULL \/ fuel = 0 THEN m
  ELSE IF s.fibers[of].key # NoKey
  THEN OldKeyMap(s, s.fibers[of].sibling, MapSet(m, s.fibers[of].key, of), fuel - 1)
  ELSE OldKeyMap(s, s.fibers[of].sibling, m, fuel - 1)

RECURSIVE MarkOldIndex(_, _, _, _)
\* the same loop: of._oldIndex = oldIndexCounter for every keyed old node
MarkOldIndex(s, of, oldIndexCounter, fuel) ==
  IF of = NULL THEN s
  ELSE IF fuel = 0 THEN [s EXCEPT !.hung = TRUE]
  ELSE IF s.fibers[of].key # NoKey
  THEN MarkOldIndex([s EXCEPT !.fibers[of].oldIndex = oldIndexCounter],
                    s.fibers[of].sibling, oldIndexCounter + 1, fuel - 1)
  ELSE MarkOldIndex(s, s.fibers[of].sibling, oldIndexCounter + 1, fuel - 1)

TagOf(child) == IF child.type \in Components THEN "FunctionComponent" ELSE "HostComponent"

\* the chain is linked but the parent pointer of the new node is left as it was
LinkWithoutReturn(s, returnFiber, prevNewFiber, newFiber) ==
  IF s.hung \/ s.threw THEN s
  ELSE IF prevNewFiber = NULL
  THEN [s EXCEPT !.fibers[returnFiber].child = newFiber]
  ELSE [s EXCEPT !.fibers[prevNewFiber].sibling = newFiber]

\* newFiber.return = returnFiber; first child or next sibling of the new chain
LinkNew(s, returnFiber, prevNewFiber, newFiber) ==
  IF s.hung \/ s.threw THEN s
  ELSE IF prevNewFiber = NULL
  THEN [s EXCEPT !.fibers[newFiber].return = returnFiber,
                 !.fibers[returnFiber].child = newFiber]
  ELSE [s EXCEPT !.fibers[newFiber].return = returnFiber,
                 !.fibers[prevNewFiber].sibling = newFiber]

\* a fresh fiber for a child that matches no old fiber, marked Placement; its
\* identity is Len(s.fibers) + 1
FreshChild(s, child) ==
  AllocFiber(s, IF child.kind = "text"
                THEN [createFiber("Text", TextProps(child.text), NoKey) EXCEPT
                        !.flags = Placement]
                ELSE [createFiber(TagOf(child), wrapProps(child), child.key) EXCEPT
                        !.type = child.type, !.flags = Placement])

\* the reverse of the move test of the keyed walk
MovedForward(oldIdx, lastPlacedIndex) == oldIdx > lastPlacedIndex

\* the move test of the keyed walk: if (oldIdx < lastPlacedIndex)
MovedBack(oldIdx, lastPlacedIndex) == oldIdx < lastPlacedIndex

\* the old node of the same key, whatever its type
MatchedByKey(s, child, m) ==
  LET matched == IF child.key # NoKey THEN MapGet(m, child.key) ELSE NULL IN
  IF child.kind = "elem" /\ matched # NULL THEN matched ELSE NULL

\* matched = oldKeyMap.get(child.key), when it is reused (fiber.ts 981-982)
Matched(s, child, m) ==
  LET matched == IF child.key # NoKey THEN MapGet(m, child.key) ELSE NULL IN
  IF child.kind = "elem" /\ matched # NULL /\ s.fibers[matched].type = child.type
  THEN matched ELSE NULL

\* (matched as any)._oldIndex ?? 0
OldIndexOf(s, matched) ==
  IF s.fibers[matched].oldIndex = -1 THEN 0 ELSE s.fibers[matched].oldIndex

\* newFiber of one entry of the keyed walk
KeyedNew(s, child, m) ==
  IF Matched(s, child, m) # NULL THEN WipOf(s, Matched(s, child, m))
  ELSE Len(s.fibers) + 1

\* lastPlacedIndex after one entry of the keyed walk (fiber.ts 989-994)
KeyedLast(s, child, m, lastPlacedIndex) ==
  IF Matched(s, child, m) = NULL THEN lastPlacedIndex
  ELSE IF MovedBack(OldIndexOf(s, Matched(s, child, m)), lastPlacedIndex)
  THEN lastPlacedIndex
  ELSE OldIndexOf(s, Matched(s, child, m))

\* one entry of the keyed walk over the new list (fiber.ts 981-1002)
KeyedChild(s, child, m, lastPlacedIndex) ==
  LET matched == Matched(s, child, m) IN
  IF matched # NULL
  THEN
    LET newPending == wrapProps(child)
        upd == ~shallowEqual(s.fibers[matched].memoizedProps, newPending)
        moved == MovedBack(OldIndexOf(s, matched), lastPlacedIndex)
    IN [createWorkInProgress(s, matched, newPending) EXCEPT
          !.fibers[WipOf(s, matched)].type = child.type,
          !.fibers[WipOf(s, matched)].flags =
             OrFlag(IF upd THEN Update ELSE NoFlags, IF moved THEN Placement ELSE NoFlags)]
  ELSE FreshChild(s, child)

RECURSIVE DeleteUnused(_, _, _, _)
\* oldKeyMap.forEach((f, k) => { if (!used.has(k)) { f.flags |= Deletion; pushEffect(f) } })
DeleteUnused(s, m, i, used) ==
  IF i > Len(m) \/ s.hung \/ s.threw THEN s
  ELSE IF m[i].k \in used THEN DeleteUnused(s, m, i + 1, used)
  ELSE DeleteUnused(
         pushEffect([s EXCEPT !.fibers[m[i].f].flags = OrFlag(@, Deletion)], m[i].f),
         m, i + 1, used)

RECURSIVE KeyedLoop(_, _, _, _, _, _, _, _)
\* the keyed walk (fiber.ts 973-1007) and the deletions that follow it (1009)
KeyedLoop(s, returnFiber, children, i, prevNewFiber, used, lastPlacedIndex, m) ==
  IF s.hung \/ s.threw THEN s
  ELSE IF i > Len(children) THEN DeleteUnused(s, m, 1, used)
  ELSE IF children[i].kind = "null"
  THEN KeyedLoop(s, returnFiber, children, i + 1, prevNewFiber, used, lastPlacedIndex, m)
  ELSE KeyedLoop(
         LinkNew(KeyedChild(s, children[i], m, lastPlacedIndex), returnFiber, prevNewFiber,
                 KeyedNew(s, children[i], m)),
         returnFiber, children, i + 1, KeyedNew(s, children[i], m),
         IF Matched(s, children[i], m) # NULL THEN used \cup {children[i].key} ELSE used,
         KeyedLast(s, children[i], m, lastPlacedIndex), m)

\* whether the positional walk reuses old for child (fiber.ts 1022, 1033)
LinearReuses(s, child, old) ==
  /\ old # NULL
  /\ IF child.kind = "text" THEN s.fibers[old].tag = "Text"
     ELSE s.fibers[old].type = child.type /\ s.fibers[old].key = child.key

\* newFiber of one entry of the positional walk
LinearNew(s, child, old) ==
  IF LinearReuses(s, child, old) THEN WipOf(s, old) ELSE Len(s.fibers) + 1

\* one entry of the positional walk (fiber.ts 1021-1045)
LinearChild(s, child, old) ==
  IF ~LinearReuses(s, child, old) THEN FreshChild(s, child)
  ELSE IF child.kind = "text" THEN
    LET sn == s.fibers[old].stateNode IN
    IF sn # NULL /\ s.dom[sn].data # child.text
    THEN [createWorkInProgress(s, old, NullProps) EXCEPT
            !.fibers[WipOf(s, old)].flags = Update,
            !.fibers[WipOf(s, old)].pendingProps = TextProps(child.text)]
    ELSE createWorkInProgress(s, old, NullProps)
  ELSE
    [createWorkInProgress(s, old, wrapProps(child)) EXCEPT
       !.fibers[WipOf(s, old)].type = child.type,
       !.fibers[WipOf(s, old)].flags =
          IF shallowEqual(s.fibers[old].memoizedProps, wrapProps(child))
          THEN NoFlags ELSE Update]

RECURSIVE DeleteRest(_, _, _)
\* while (old) { old.flags |= Deletion; pushEffect(old); old = old.sibling }
DeleteRest(s, old, fuel) ==
  IF old = NULL \/ s.hung \/ s.threw THEN s
  ELSE IF fuel = 0 THEN [s EXCEPT !.hung = TRUE]
  ELSE DeleteRest(pushEffect([s EXCEPT !.fibers[old].flags = OrFlag(@, Deletion)], old),
                  s.fibers[old].sibling, fuel - 1)

RECURSIVE LinearLoop(_, _, _, _, _, _)
\* the positional walk (fiber.ts 1016-1050) and the deletions that follow it (1052)
LinearLoop(s, returnFiber, children, i, prevNew, old) ==
  IF s.hung \/ s.threw THEN s
  ELSE IF i > Len(children) THEN DeleteRest(s, old, Fuel)
  ELSE IF children[i].kind = "null"
  THEN LinearLoop(s, returnFiber, children, i + 1, prevNew, old)
  ELSE LinearLoop(
         LinkNew(LinearChild(s, children[i], old), returnFiber, prevNew,
                 LinearNew(s, children[i], old)),
         returnFiber, children, i + 1, LinearNew(s, children[i], old),
         IF old # NULL THEN s.fibers[old].sibling ELSE NULL)

\* children.length > 0 && every child is no string && some child has a key
keyable(children) ==
  /\ Len(children) > 0
  /\ \A i \in 1..Len(children) : children[i].kind # "text"
  /\ \E i \in 1..Len(children) : children[i].kind = "elem" /\ children[i].key # NoKey

reconcileChildren(s, returnFiber, children) ==
  LET alt == s.fibers[returnFiber].alternate
      oldFiber == IF alt # NULL THEN s.fibers[alt].child ELSE NULL
  IN
  IF keyable(children)
  THEN KeyedLoop(MarkOldIndex(s, oldFiber, 0, Fuel), returnFiber, children, 1, NULL, {}, -1,
                 OldKeyMap(s, oldFiber, <<>>, Fuel))
  ELSE LinearLoop(s, returnFiber, children, 1, NULL, oldFiber)

\* ------------------------------------------------------------------ hooks
\* A hook array entry of fixed shape: a state cell (value) or an effect.
\* isKickArray is the identity of the array a state cell holds, as far as
\* Object.is can tell it: the module's array KickArray or another array.
\* destroy is whether a cleanup function is stored; the functions themselves
\* are the application's (see Item below): every create returns a cleanup.
\* mark is the render pass that last set firstRun or depsChanged (a record
\* of the history, not a field of the source).
StateHook(value) ==
  [htype |-> "state", value |-> value, kind |-> "", hasDeps |-> FALSE, deps |-> <<>>,
   destroy |-> FALSE, firstRun |-> FALSE, depsChanged |-> FALSE, mark |-> 0,
   isKickArray |-> FALSE]
EffectHook(kind, hasDeps, deps, pass) ==
  [htype |-> "effect", value |-> <<>>, kind |-> kind, hasDeps |-> hasDeps, deps |-> deps,
   destroy |-> FALSE, firstRun |-> TRUE, depsChanged |-> TRUE, mark |-> pass,
   from |-> 0, leaky |-> FALSE, again |-> FALSE]

\* prepareToUseHooks: currentFiber = fiber; fiber.hooks = fiber.hooks || []
prepareToUseHooks(s, fiber) ==
  IF s.fibers[fiber].hooks # NULL THEN [s EXCEPT !.currentFiber = fiber]
  ELSE [s EXCEPT !.currentFiber = fiber, !.hooksHeap = Append(@, <<>>),
                 !.fibers[fiber].hooks = Len(s.hooksHeap) + 1]

\* finishHooks, the statement after fiber.type(props): not reached when the
\* component function threw
finishHooks(s) ==
  IF s.threw THEN s ELSE [s EXCEPT !.currentFiber = NULL, !.currentComponent = NULL]

\* Item(p) starts with if (p.v === 'crash') throw new Error()
ItemThrows(v) == v = "crash"

\* useState(initialValue) as hook idx of the current fiber's array h
useState(s, h, idx, initialValue) ==
  IF idx > Len(s.hooksHeap[h])
  THEN [s EXCEPT !.hooksHeap[h] = Append(@, StateHook(initialValue))]
  ELSE s

\* Dependency values are strings, and the numbers NaN, +0 and -0 written as
\* "NaN", "+0" and "-0".  a === b: NaN equals nothing, the two zeros are equal.
StrictEquals(a, b) ==
  IF a = "NaN" \/ b = "NaN" THEN FALSE
  ELSE IF a \in {"+0", "-0"} /\ b \in {"+0", "-0"} THEN TRUE
  ELSE a = b

\* Object.is(a, b): NaN is NaN, +0 is not -0
ObjectIs(a, b) == a = b

\* deps.some((d, i) => d !== eff.deps[i]) for lists of equal length
SomeDiffers(deps, old) == \E i \in 1..Len(deps) : ~StrictEquals(deps[i], old[i])

mountOrUpdateEffect(s, h, idx, kind, hasDeps, deps) ==
  IF idx > Len(s.hooksHeap[h])
  THEN [s EXCEPT !.hooksHeap[h] = Append(@, EffectHook(kind, hasDeps, deps, s.passId))]
  ELSE
    LET eff == s.hooksHeap[h][idx]
        changed == IF ~hasDeps THEN TRUE
                   ELSE IF ~eff.hasDeps THEN TRUE
                   ELSE IF Len(deps) # Len(eff.deps) THEN TRUE
                   ELSE SomeDiffers(deps, eff.deps)
    IN [s EXCEPT !.hooksHeap[h][idx] =
          [@ EXCEPT !.depsChanged = changed, !.hasDeps = hasDeps, !.deps = deps,
                    !.mark = IF changed THEN s.passId ELSE @, !.again = ~changed]]

\* useRef(initialValue) as hook idx of the array h: { __type: 'ref', current }
RefHook(initialValue) ==
  [current |-> initialValue] @@ [StateHook(<<>>) EXCEPT !.htype = "ref"]
useRef(s, h, idx, initialValue) ==
  IF idx > Len(s.hooksHeap[h])
  THEN [s EXCEPT !.hooksHeap[h] = Append(@, RefHook(initialValue))]
  ELSE s

\* useMemo(factory, deps) as hook idx of the array h, where factory returns
\* value: { __type: 'memo', value, deps }
MemoHook(value, hasDeps, deps) ==
  [StateHook(value) EXCEPT !.htype = "memo", !.hasDeps = hasDeps, !.deps = deps]
useMemo(s, h, idx, value, hasDeps, deps) ==
  IF idx > Len(s.hooksHeap[h])
  THEN [s EXCEPT !.hooksHeap[h] = Append(@, MemoHook(value, hasDeps, deps))]
  ELSE
    LET memo == s.hooksHeap[h][idx]
        changed == IF ~hasDeps \/ ~memo.hasDeps THEN TRUE
                   ELSE IF Len(deps) # Len(memo.deps) THEN TRUE
                   ELSE SomeDiffers(deps, memo.deps)
    IN IF changed
       THEN [s EXCEPT !.hooksHeap[h][idx] =
               [@ EXCEPT !.value = value, !.hasDeps = hasDeps, !.deps = deps]]
       ELSE s

\* useCallback(cb, deps) is useMemo(() => cb, deps)
useCallback(s, h, idx, cb, hasDeps, deps) == useMemo(s, h, idx, cb, hasDeps, deps)

\* ----------------------------------------------------------- the application
\* The mounted application, after the repository's TodoList example:
\*   function App() { const [list, setList] = useState(InitialList);
\*                    return <div><ul>{list.map(render)}</ul>
\*                             <button onClick={() => setList(prev => prev.slice().reverse())}>
\*                               reorder</button></div> }
\*   function Item(props) { useLayoutEffect(() => cleanup, [props.v]);
\*                          useEffect(() => cleanup, [props.v]);
\*                          return <li v={props.v}/> }
\* A list entry d is text, a null child, a host element (with an optional
\* text child d.x) or an <Item key v/>.
Entry(t, k, a, x) == [t |-> t, k |-> k, a |-> a, x |-> x]

RenderEntry(d, ref) ==
  CASE d.t = "text" -> TextLeaf(d.x)
    [] d.t = "null" -> NullChild
    [] d.t = "Item" -> Elem("Item", d.k, d.a, 0, <<>>)
    [] OTHER -> Elem(d.t, d.k, d.a, ref, IF d.x = "" THEN <<>> ELSE <<TextLeaf(d.x)>>)

\* the text of the button (the label of the example stands in Chinese)
ButtonText == "reorder"

\* The element App returns for a list:
\*   <div><ul>{list.map(render)}</ul><button onClick={...}>reorder</button></div>
\* Every array and the onClick function it builds are new: the children of
\* the <ul> and of its entries have the identities gen+1 .. gen+1+Len(list),
\* the children of the <div> and of the <button> and the function the three
\* that follow.
AppOutput(list, gen) ==
  Elem("div", NoKey, "", gen + 2 + Len(list),
       << Elem("ul", NoKey, "", gen + 1,
               [i \in 1..Len(list) |-> RenderEntry(list[i], gen + 1 + i)]),
          WithClick(Elem("button", NoKey, "", gen + 3 + Len(list), <<TextLeaf(ButtonText)>>),
                    gen + 4 + Len(list)) >>)

RootElement == Elem("App", NoKey, "", 0, <<>>)

\* the list App's useState returns: the stored value, initialList on the
\* first call
StateOf(s, fiber) ==
  IF Len(s.hooksHeap[s.fibers[fiber].hooks]) = 0 THEN s.initialList
  ELSE s.hooksHeap[s.fibers[fiber].hooks][1].value

\* the element fiber.type(props) returns
ComponentOutput(s, fiber) ==
  IF s.fibers[fiber].type = "App" THEN AppOutput(StateOf(s, fiber), s.gen)
  ELSE Elem("li", NoKey, s.fibers[fiber].pendingProps.v, 0, <<>>)

\* the hook calls of fiber.type(props), between prepareToUseHooks and
\* finishHooks
InvokeComponent(s, fiber) ==
  LET h == s.fibers[fiber].hooks
      v == s.fibers[fiber].pendingProps.v
  IN IF s.fibers[fiber].type = "App"
     THEN [useState(s, h, 1, s.initialList) EXCEPT
             !.gen = @ + 4 + Len(StateOf(s, fiber)), !.invoked = @ \cup {fiber},
             !.rendered = StateOf(s, fiber)]
     ELSE IF ItemThrows(v)
     THEN [s EXCEPT !.threw = TRUE, !.raised = fiber, !.invoked = @ \cup {fiber}]
     ELSE [mountOrUpdateEffect(mountOrUpdateEffect(s, h, 1, "layout", TRUE, <<v>>),
                               h, 2, "passive", TRUE, <<v>>)
             EXCEPT !.invoked = @ \cup {fiber}]

\* ------------------------------------------------------ the legacy renderer
\* createElement.ts (diff, mount, updateProps), render.ts (legacyRender) and
\* reconciler.ts (reconcile): the recursive renderer that writes the host
\* tree of the container directly, without the fiber root.
\* A VNode is a description with the fields the renderer writes: dom (its
\* host object), componentInstance (inst: the instance is known by its hooks
\* array) and childVNode (child: <<>> while undefined, else <<vnode>>).  id is
\* the identity of the object createElement returned; string children stay
\* text leaves.  Each operator returns the state, with the VNode it has
\* written in the register out.
RECURSIVE VNode(_, _)
VNode(d, id) ==
  IF d.kind # "elem" THEN d
  ELSE [kind |-> "elem", type |-> d.type, key |-> d.key, v |-> d.v, text |-> "",
        ref |-> d.ref, on |-> d.on,
        kids |-> [i \in 1..Len(d.kids) |-> VNode(d.kids[i], Append(id, i))],
        id |-> id, dom |-> NULL, inst |-> NULL, child |-> <<>>]

IsText(c) == c.kind = "text"

\* document.createElement(tag) and document.createTextNode(data): the new
\* object is dom[Len(dom) + 1]
createHostObject(s, tag, data) == [s EXCEPT !.dom = Append(@, HostNode(tag, data))]

firstChild(s, el) == IF s.dom[el].children = <<>> THEN NULL ELSE s.dom[el].children[1]

IndexIn(seq, x) == CHOOSE i \in 1..Len(seq) : seq[i] = x

nextSibling(s, node) ==
  LET p == s.dom[node].parent IN
  IF p = NULL THEN NULL
  ELSE IF IndexIn(s.dom[p].children, node) = Len(s.dom[p].children) THEN NULL
  ELSE s.dom[p].children[IndexIn(s.dom[p].children, node) + 1]

\* el.childNodes[i] for the index i of the source, which counts from 0
childNodes(s, el, i) ==
  IF i + 1 <= Len(s.dom[el].children) THEN s.dom[el].children[i + 1] ELSE NULL

InsertAt(seq, i, x) == SubSeq(seq, 1, i - 1) \o <<x>> \o SubSeq(seq, i, Len(seq))

\* parent.insertBefore(node, ref): node leaves its present parent first; a
\* null ref appends
insertBefore(s, parent, node, ref) ==
  IF ref = NULL THEN appendChild(s, parent, node)
  ELSE IF node = NULL \/ domContains(s, node, parent) \/ s.dom[ref].parent # parent
  THEN [s EXCEPT !.threw = TRUE]
  ELSE IF node = ref THEN s
  ELSE
    LET old == s.dom[node].parent
        d1 == IF old = NULL THEN s.dom
              ELSE [s.dom EXCEPT ![old].children = RemoveAt(@, node)]
        d2 == [d1 EXCEPT ![parent].children = InsertAt(@, IndexIn(@, ref), node),
                         ![node].parent = parent]
    IN [s EXCEPT !.dom = d2]

\* parent.replaceChild(node, old): TypeError for a null argument,
\* NotFoundError unless old is a child of parent
replaceChild(s, parent, node, old) ==
  IF node = NULL \/ old = NULL THEN [s EXCEPT !.threw = TRUE]
  ELSE IF domContains(s, node, parent) \/ s.dom[old].parent # parent
  THEN [s EXCEPT !.threw = TRUE]
  ELSE IF node = old THEN s
  ELSE
    LET from == s.dom[node].parent
        d1 == IF from = NULL THEN s.dom
              ELSE [s.dom EXCEPT ![from].children = RemoveAt(@, node)]
        d2 == [d1 EXCEPT ![parent].children =
                           [i \in 1..Len(@) |-> IF @[i] = old THEN node ELSE @[i]],
                         ![node].parent = parent, ![old].parent = NULL]
    IN [s EXCEPT !.dom = d2]

\* node.textContent = text: the data of a text node; an element loses its
\* children and gets one new text node
setTextContent(s, node, text) ==
  IF s.dom[node].tag = "#text" THEN [s EXCEPT !.dom[node].data = text]
  ELSE
    LET kids == s.dom[node].children
        d1 == [n \in 1..Len(s.dom) |->
                 IF \E i \in 1..Len(kids) : kids[i] = n
                 THEN [s.dom[n] EXCEPT !.parent = NULL] ELSE s.dom[n]]
        t == Len(s.dom) + 1
    IN [s EXCEPT !.dom = Append([d1 EXCEPT ![node].children = <<t>>],
                                [HostNode("#text", text) EXCEPT !.parent = node])]

\* setCurrentComponent(instance): currentComponent = instance; hookIndex = 0
\* (the instance's hooks array exists already)
setCurrentComponent(s, instance) == [s EXCEPT !.currentComponent = instance]
resetCurrentComponent(s) == [s EXCEPT !.currentComponent = NULL]

\* getHooksArray: the array of currentFiber first, then of currentComponent;
\* NULL stands for the Error thrown when neither is set
getHooksArray(s) ==
  IF s.currentFiber # NULL THEN s.fibers[s.currentFiber].hooks ELSE s.currentComponent

\* Item(props) called by the legacy renderer: its two hook calls, starting at
\* hookIndex 0, write the array getHooksArray returns
InvokeItem(s, v) ==
  IF ItemThrows(v) \/ getHooksArray(s) = NULL THEN [s EXCEPT !.threw = TRUE]
  ELSE [mountOrUpdateEffect(mountOrUpdateEffect(s, getHooksArray(s), 1, "layout", TRUE, <<v>>),
                            getHooksArray(s), 2, "passive", TRUE, <<v>>)
          EXCEPT !.gen = @ + 1]

\* the VNode Item has returned, <li v={props.v}/>: a new object, s.gen
ItemOutput(s, vnode) == VNode(Elem("li", NoKey, vnode.v, 0, <<>>), <<s.gen>>)

\* The loop of mount over vnode.props (createElement.ts 193-206): the
\* attribute v, the onClick listener and, last, the entry children, which
\* props holds when the element has children.  Where the host's elements have
\* a read-only property children, the assignment el.children = ... of a
\* module in strict mode is a TypeError; elsewhere it sets an attribute,
\* which the host tree of the model does not keep.
MountProps(s, el, vnode) ==
  LET s1 == [s EXCEPT !.dom[el].v = vnode.v,
                      !.dom[el].click = IF vnode.on # 0 THEN addEventListener(@, vnode.on) ELSE @]
  IN IF vnode.kids # <<>> /\ s.childrenReadOnly THEN [s1 EXCEPT !.threw = TRUE] ELSE s1

\* updateProps(el, oldProps, newProps): the loop over oldProps removes what
\* newProps lacks, the loop over newProps sets every entry but key
updateProps(s, el, old, new) ==
  IF el = NULL THEN [s EXCEPT !.threw = TRUE]
  ELSE
    LET c1 == IF old.on # 0 /\ new.on = 0
              THEN removeEventListener(s.dom[el].click, old.on) ELSE s.dom[el].click
        c2 == IF new.on # 0 /\ old.on # new.on
              THEN addEventListener(IF old.on # 0 THEN removeEventListener(c1, old.on) ELSE c1,
                                    new.on)
              ELSE c1
        v2 == IF new.v # "" THEN new.v
              ELSE IF old.v # "" THEN "" ELSE s.dom[el].v
        s1 == [s EXCEPT !.dom[el].v = v2, !.dom[el].click = c2]
    IN IF new.kids # <<>> /\ s.childrenReadOnly THEN [s1 EXCEPT !.threw = TRUE] ELSE s1

\* oldChildren.every(c => typeof c !== 'string' && c && c.key != null) of a
\* non-empty array
everyKeyed(children) ==
  /\ Len(children) > 0
  /\ \A i \in 1..Len(children) : ~IsText(children[i]) /\ children[i].key # NoKey

\* both arrays hold strings only, as many, and the same ones
SameText(oldChildren, newChildren) ==
  /\ Len(oldChildren) = Len(newChildren) /\ Len(oldChildren) > 0
  /\ \A i \in 1..Len(oldChildren) : IsText(oldChildren[i]) /\ IsText(newChildren[i])
  /\ \A i \in 1..Len(oldChildren) : oldChildren[i].text = newChildren[i].text

\* oldMap.get(key): the last old child with the key
HasOld(oldChildren, key) == \E i \in 1..Len(oldChildren) : oldChildren[i].key = key
OldOf(oldChildren, key) ==
  oldChildren[CHOOSE i \in 1..Len(oldChildren) :
                /\ oldChildren[i].key = key
                /\ \A j \in (i + 1)..Len(oldChildren) : oldChildren[j].key # key]

RECURSIVE mount(_, _, _)
RECURSIVE MountChildren(_, _, _, _)
RECURSIVE diff(_, _, _, _)
RECURSIVE KeyedDiff(_, _, _, _, _)
RECURSIVE IndexDiff(_, _, _, _, _)
RECURSIVE RemoveUnused(_, _, _, _, _)
RECURSIVE Reorder(_, _, _, _, _)

\* container.appendChild(el), after the children of el are mounted (out
\* holds them)
MountedHost(s, vnode, el, container) ==
  IF s.threw THEN [s EXCEPT !.out = [vnode EXCEPT !.dom = el, !.kids = s.out]]
  ELSE [appendChild(s, container, el) EXCEPT !.out = [vnode EXCEPT !.dom = el, !.kids = s.out]]

MountedChild(s, kids, el, i) == MountChildren(s, [kids EXCEPT ![i] = s.out], el, i + 1)

\* vnode.children.forEach(child => ...) of mount
MountChildren(s, kids, el, i) ==
  IF i > Len(kids) \/ s.threw THEN [s EXCEPT !.out = kids]
  ELSE IF IsText(kids[i])
  THEN MountChildren(appendChild(createHostObject(s, "#text", kids[i].text), el, Len(s.dom) + 1),
                     kids, el, i + 1)
  ELSE MountedChild(mount(s, kids[i], el), kids, el, i)

\* the end of mount for a function type: vnode.dom = childVNode.dom, which is
\* null before the child is mounted
MountedComponent(s, vnode, instance) ==
  [s EXCEPT !.out = [vnode EXCEPT !.inst = instance, !.child = <<s.out>>]]

InvokedToMount(s, vnode, instance, container) ==
  IF s.threw THEN [s EXCEPT !.out = [vnode EXCEPT !.inst = instance]]
  ELSE MountedComponent(mount(resetCurrentComponent(s), ItemOutput(s, vnode), container),
                        vnode, instance)

\* if (!vnode) return; a string has no type and takes neither branch
mount(s, vnode, container) ==
  IF s.threw \/ vnode.kind # "elem" THEN [s EXCEPT !.out = vnode]
  ELSE IF vnode.type \notin Components
  THEN MountedHost(MountChildren(MountProps(createHostObject(s, vnode.type, ""),
                                            Len(s.dom) + 1, vnode),
                                 vnode.kids, Len(s.dom) + 1, 1),
                   vnode, Len(s.dom) + 1, container)
  ELSE IF vnode.inst # NULL THEN [s EXCEPT !.out = vnode]
  ELSE InvokedToMount(
         InvokeItem(setCurrentComponent([s EXCEPT !.hooksHeap = Append(@, <<>>)],
                                        Len(s.hooksHeap) + 1),
                    vnode.v),
         vnode, Len(s.hooksHeap) + 1, container)

KeyedDiffed(s, oldChildren, kids, el, i) ==
  KeyedDiff(s, oldChildren, [kids EXCEPT ![i] = s.out], el, i + 1)

\* the first loop of the keyed branch: a new child is diffed against the old
\* child of its key, or mounted
KeyedDiff(s, oldChildren, kids, el, i) ==
  IF i > Len(kids) \/ s.threw THEN [s EXCEPT !.out = kids]
  ELSE KeyedDiffed(IF HasOld(oldChildren, kids[i].key)
                   THEN diff(s, <<OldOf(oldChildren, kids[i].key)>>, kids[i], el)
                   ELSE mount(s, kids[i], el),
                   oldChildren, kids, el, i)

\* try { el.removeChild(c.dom) } catch {} for the old children whose key no
\* new child has
RemoveUnused(s, oldChildren, kids, el, j) ==
  IF j > Len(oldChildren) THEN s
  ELSE IF /\ ~HasOld(kids, oldChildren[j].key) /\ oldChildren[j].dom # NULL
          /\ s.dom[oldChildren[j].dom].parent = el
  THEN RemoveUnused(removeChild(s, el, oldChildren[j].dom), oldChildren, kids, el, j + 1)
  ELSE RemoveUnused(s, oldChildren, kids, el, j + 1)

\* the host children are put in the order of the new children
Reorder(s, kids, el, i, prev) ==
  IF i > Len(kids) \/ s.threw THEN s
  ELSE IF kids[i].dom = NULL THEN Reorder(s, kids, el, i + 1, prev)
  ELSE IF prev = NULL
  THEN Reorder(IF firstChild(s, el) # kids[i].dom
               THEN insertBefore(s, el, kids[i].dom, firstChild(s, el)) ELSE s,
               kids, el, i + 1, kids[i].dom)
  ELSE Reorder(IF nextSibling(s, prev) # kids[i].dom
               THEN insertBefore(s, el, kids[i].dom, nextSibling(s, prev)) ELSE s,
               kids, el, i + 1, kids[i].dom)

KeyedEnd(s, old, new, el) ==
  IF s.threw THEN [s EXCEPT !.out = [new EXCEPT !.kids = s.out]]
  ELSE [Reorder(RemoveUnused(s, old.kids, s.out, el, 1), s.out, el, 1, NULL) EXCEPT
          !.out = [new EXCEPT !.kids = s.out]]

IndexDiffed(s, oldChildren, kids, el, i) ==
  IndexDiff(s, oldChildren, [kids EXCEPT ![i] = s.out], el, i + 1)

\* text -> element: the mounted element takes the place of the text node
Replaced(s, oldChildren, kids, el, i, placeholder) ==
  IF s.threw \/ placeholder = NULL THEN IndexDiffed(s, oldChildren, kids, el, i)
  ELSE IndexDiffed(replaceChild(s, el, s.out.dom, placeholder), oldChildren, kids, el, i)

\* !children[i]: undefined past the end of the array, null, or the empty
\* string
Falsy(children, i) ==
  \/ i > Len(children)
  \/ children[i].kind = "null"
  \/ (children[i].kind = "text" /\ children[i].text = "")

\* the loop by index (createElement.ts 130-165); i counts from 1 here
IndexDiff(s, oldChildren, kids, el, i) ==
  IF (i > Len(oldChildren) /\ i > Len(kids)) \/ s.threw THEN [s EXCEPT !.out = kids]
  ELSE IF Falsy(oldChildren, i) /\ Falsy(kids, i)
  THEN IndexDiff(s, oldChildren, kids, el, i + 1)
  ELSE IF Falsy(oldChildren, i)
  THEN IF IsText(kids[i])
       THEN IndexDiff(appendChild(createHostObject(s, "#text", kids[i].text), el,
                                  Len(s.dom) + 1),
                      oldChildren, kids, el, i + 1)
       ELSE IndexDiffed(mount(s, kids[i], el), oldChildren, kids, el, i)
  ELSE IF Falsy(kids, i)
  THEN IF ~IsText(oldChildren[i])
       THEN IndexDiff(IF oldChildren[i].dom # NULL
                      THEN removeChild(s, el, oldChildren[i].dom) ELSE s,
                      oldChildren, kids, el, i + 1)
       ELSE IndexDiff(IF childNodes(s, el, i - 1) # NULL
                      THEN removeChild(s, el, childNodes(s, el, i - 1)) ELSE s,
                      oldChildren, kids, el, i + 1)
  ELSE IF IsText(oldChildren[i]) /\ IsText(kids[i])
  THEN IndexDiff(IF oldChildren[i].text = kids[i].text THEN s
                 ELSE IF childNodes(s, el, i - 1) = NULL THEN [s EXCEPT !.threw = TRUE]
                 ELSE setTextContent(s, childNodes(s, el, i - 1), kids[i].text),
                 oldChildren, kids, el, i + 1)
  ELSE IF ~IsText(oldChildren[i]) /\ ~IsText(kids[i])
  THEN IndexDiffed(diff(s, <<oldChildren[i]>>, kids[i], el), oldChildren, kids, el, i)
  ELSE IF IsText(kids[i])
  THEN IndexDiff(replaceChild(createHostObject(s, "#text", kids[i].text), el,
                              Len(s.dom) + 1, oldChildren[i].dom),
                 oldChildren, kids, el, i + 1)
  ELSE Replaced(mount(s, kids[i], el), oldChildren, kids, el, i, childNodes(s, el, i - 1))

DiffedHost(s, new) == [s EXCEPT !.out = [new EXCEPT !.kids = s.out]]

\* the children of a host element whose props are updated
DiffChildren(s, old, new, el) ==
  IF s.threw \/ SameText(old.kids, new.kids) THEN [s EXCEPT !.out = new]
  ELSE IF everyKeyed(old.kids) /\ everyKeyed(new.kids)
  THEN KeyedEnd(KeyedDiff(s, old.kids, new.kids, el, 1), old, new, el)
  ELSE DiffedHost(IndexDiff(s, old.kids, new.kids, el, 1), new)

\* the end of diff for a function type: newVNode.dom = newChildVNode.dom is
\* read before the child is diffed
DiffedComponent(s, new, instance) ==
  [s EXCEPT !.out = [new EXCEPT !.dom = NULL, !.inst = instance, !.child = <<s.out>>]]

InvokedToDiff(s, old, new, container) ==
  IF s.threw THEN [s EXCEPT !.out = new]
  ELSE DiffedComponent(diff(resetCurrentComponent(s), old.child, ItemOutput(s, new), container),
                       new, old.inst)

diff(s, oldVNode, newVNode, container) ==
  IF s.threw THEN [s EXCEPT !.out = newVNode]
  ELSE IF oldVNode = <<>> THEN mount(s, newVNode, container)
  ELSE IF oldVNode[1].type # newVNode.type
  THEN mount(replaceChild(createHostObject(s, IF newVNode.type \in Components THEN "div"
                                              ELSE newVNode.type, ""),
                          container, Len(s.dom) + 1, oldVNode[1].dom),
             newVNode, container)
  ELSE IF newVNode.type \notin Components
  THEN IF oldVNode[1].id = newVNode.id THEN [s EXCEPT !.out = newVNode]
       ELSE DiffChildren(updateProps(s, oldVNode[1].dom, oldVNode[1], newVNode),
                         oldVNode[1], [newVNode EXCEPT !.dom = oldVNode[1].dom],
                         oldVNode[1].dom)
  ELSE IF oldVNode[1].inst = NULL THEN [s EXCEPT !.out = newVNode]
  ELSE InvokedToDiff(InvokeItem(setCurrentComponent(s, oldVNode[1].inst), newVNode.v),
                     oldVNode[1], newVNode, container)

\* (container as any)._vnode = nextVNode, not reached when diff threw.  When
\* the application passes the VNode the container holds, what diff wrote to
\* it is written to the held object.
Stored(s, held) ==
  IF s.threw /\ ~held THEN s ELSE [s EXCEPT !.containerVnode = <<s.out>>]

legacyRender(s, vnode, container) ==
  Stored(diff(s, s.containerVnode, vnode, container),
         s.containerVnode # <<>> /\ s.containerVnode[1].id = vnode.id)

reconcile(s, vnode, container) == diff(s, <<>>, vnode, container)

\* ---------------------------------------------------------- pending effects
IsPendingEffect(h) == h.htype = "effect" /\ (h.firstRun \/ h.depsChanged)

InSeq(seq, x) == \E i \in 1..Len(seq) : seq[i] = x

\* some hook of the fiber is a pending effect of that kind
HasPending(s, fiber, layout) ==
  \E i \in 1..Len(s.hooksHeap[s.fibers[fiber].hooks]) :
     /\ IsPendingEffect(s.hooksHeap[s.fibers[fiber].hooks][i])
     /\ (s.hooksHeap[s.fibers[fiber].hooks][i].kind = "layout") = layout

pushEffectFiber(s, fiber) ==
  IF s.fibers[fiber].hooks = NULL THEN s
  ELSE [s EXCEPT
          !.pendingLayoutEffects =
             IF HasPending(s, fiber, TRUE) /\ ~InSeq(@, fiber) THEN Append(@, fiber) ELSE @,
          !.pendingPassiveEffects =
             IF HasPending(s, fiber, FALSE) /\ ~InSeq(@, fiber) THEN Append(@, fiber) ELSE @]

\* ------------------------------------------------------------- beginWork
RECURSIVE CloneLoop(_, _, _, _, _)
RECURSIVE CloneNext(_, _, _, _, _)
\* prevWip = cloned; currentChild = currentChild.sibling
CloneNext(s, parentWip, currentChild, cloned, fuel) ==
  CloneLoop(s, parentWip, s.fibers[currentChild].sibling, cloned, fuel - 1)

CloneLoop(s, parentWip, currentChild, prevWip, fuel) ==
  IF currentChild = NULL \/ s.threw THEN s
  ELSE IF fuel = 0 THEN [s EXCEPT !.hung = TRUE]
  ELSE
    LET c == s.fibers[currentChild]
        props == IF c.pendingProps.kind # "null" THEN c.pendingProps ELSE c.memoizedProps
    IN CloneNext(LinkNew(createWorkInProgress(s, currentChild, props), parentWip, prevWip,
                         WipOf(s, currentChild)),
                 parentWip, currentChild, WipOf(s, currentChild), fuel)

cloneChildFibers(s, parentWip, currentParent) ==
  IF currentParent = NULL THEN s
  ELSE CloneLoop(s, parentWip, s.fibers[currentParent].child, NULL, Fuel)

\* the bailout test of updateFunctionComponent (fiber.ts 895)
CanBailOut(s, fiber) ==
  LET f == s.fibers[fiber] IN
  /\ f.alternate # NULL
  /\ Truthy(s.fibers[f.alternate].memoizedProps)
  /\ shallowEqual(s.fibers[f.alternate].memoizedProps, f.pendingProps)
  /\ ~(HasBit(f.flags, Update) \/ HasBit(f.flags, Placement) \/ HasBit(f.flags, Deletion))

\* if (!fiber.hooks && fiber.alternate && fiber.alternate.hooks) fiber.hooks = ...
ReuseHooks(s, fiber) ==
  LET f == s.fibers[fiber] IN
  IF f.hooks = NULL /\ f.alternate # NULL /\ s.fibers[f.alternate].hooks # NULL
  THEN [s EXCEPT !.fibers[fiber].hooks = s.fibers[f.alternate].hooks] ELSE s

\* fiber.type(props), finishHooks() and reconcileChildren(fiber, [vnode])
\* (fiber.ts 906-909)
RenderComponent(s, fiber) ==
  reconcileChildren(finishHooks(InvokeComponent(s, fiber)), fiber, <<ComponentOutput(s, fiber)>>)

\* for (const h of hooks) if (pending effect) { pushEffectFiber(fiber); break }
CollectEffects(s, fiber) ==
  IF s.hung \/ s.threw THEN s
  ELSE IF HasPending(s, fiber, TRUE) \/ HasPending(s, fiber, FALSE)
  THEN pushEffectFiber(s, fiber) ELSE s

\* The condition under which C9 expects a bailout, read off the fiber as it
\* enters updateFunctionComponent: it has an alternate, its input is
\* shallow-equal to the input its alternate was rendered and committed with
\* (the alternate's pendingProps: a component has no memoizedProps), and none
\* of Update, Placement and Deletion is set.  This is a reading of the
\* history, not the test of the source, which is CanBailOut.
EntersUnchanged(s, fiber) ==
  LET f == s.fibers[fiber] IN
  /\ f.alternate # NULL
  /\ shallowEqual(s.fibers[f.alternate].pendingProps, f.pendingProps)
  /\ ~(HasBit(f.flags, Update) \/ HasBit(f.flags, Placement) \/ HasBit(f.flags, Deletion))

\* unchanged records the components that entered the pass so (a record of
\* the history, not a field of the source)
Entered(s, fiber) ==
  IF EntersUnchanged(s, fiber) THEN [s EXCEPT !.unchanged = @ \cup {fiber}] ELSE s

updateFunctionComponent(s, fiber) ==
  IF CanBailOut(s, fiber)
  THEN cloneChildFibers(ReuseHooks(Entered(s, fiber), fiber), fiber, s.fibers[fiber].alternate)
  ELSE CollectEffects(RenderComponent(prepareToUseHooks(ReuseHooks(Entered(s, fiber), fiber),
                                                        fiber), fiber),
                      fiber)

updateHostComponent(s, fiber) ==
  LET f == s.fibers[fiber]
      prev == f.alternate
      nextChildren == f.pendingProps.kids
      pm == IF prev # NULL THEN s.fibers[prev].memoizedProps ELSE NullProps
      sameChildren == \/ (pm.kids # <<>> /\ nextChildren # <<>> /\ pm.ref = f.pendingProps.ref)
                      \/ (pm.kids = <<>> /\ nextChildren = <<>>)
  IN IF prev # NULL /\ Truthy(pm) /\ shallowEqualExceptChildren(pm, f.pendingProps)
        /\ sameChildren
     THEN cloneChildFibers(s, fiber, prev)
     ELSE reconcileChildren(s, fiber, nextChildren)

\* the state after beginWork(fiber); BeginNext is the fiber it returns
beginWork(s, fiber) ==
  CASE s.fibers[fiber].tag = "HostRoot" ->
         reconcileChildren(s, fiber, s.fibers[fiber].pendingProps.kids)
    [] s.fibers[fiber].tag = "FunctionComponent" -> updateFunctionComponent(s, fiber)
    [] s.fibers[fiber].tag = "HostComponent" -> updateHostComponent(s, fiber)
    [] OTHER -> s

BeginNext(s1, fiber) ==
  IF s1.fibers[fiber].tag = "Text" THEN NULL ELSE s1.fibers[fiber].child

\* ------------------------------------------------------------ completeWork
RECURSIVE BubbleLoop(_, _, _, _)
\* the OR of the flags and subtreeFlags of the children (-1: the chain does
\* not end)
BubbleLoop(s, child, subtree, fuel) ==
  IF child = NULL THEN subtree
  ELSE IF fuel = 0 THEN -1
  ELSE BubbleLoop(s, s.fibers[child].sibling,
                  mergeLanes(subtree, mergeLanes(s.fibers[child].subtreeFlags,
                                                  s.fibers[child].flags)),
                  fuel - 1)

SetSubtreeFlags(s, fiber, subtree) ==
  IF subtree = -1 THEN [s EXCEPT !.hung = TRUE]
  ELSE [s EXCEPT !.fibers[fiber].subtreeFlags = subtree]

bubbleEffects(s, fiber) ==
  SetSubtreeFlags(s, fiber, BubbleLoop(s, s.fibers[fiber].child, NoFlags, Fuel))

CreateHost(s, node) == [s EXCEPT !.dom = Append(@, node)]

\* the switch of completeWork (fiber.ts 1057-1087)
CompleteByTag(s, fiber) ==
  LET f == s.fibers[fiber] IN
  CASE f.tag = "HostComponent" ->
         IF f.stateNode = NULL
         THEN [updateHostComponentProps(
                 [CreateHost(s, HostNode(f.type, "")) EXCEPT
                    !.fibers[fiber].stateNode = Len(s.dom) + 1],
                 Len(s.dom) + 1, ObjProps(NoKey, "", 0, <<>>), f.pendingProps)
                 EXCEPT !.fibers[fiber].memoizedProps = f.pendingProps]
         ELSE [s EXCEPT !.fibers[fiber].memoizedProps = f.pendingProps]
    [] f.tag = "Text" ->
         IF f.stateNode = NULL
         THEN [CreateHost(s, HostNode("#text", f.pendingProps.text)) EXCEPT
                 !.fibers[fiber].stateNode = Len(s.dom) + 1]
         ELSE IF HasBit(f.flags, Update)
         THEN [s EXCEPT !.dom[f.stateNode].data = f.pendingProps.text,
                        !.renderHostWrite = TRUE]
         ELSE s
    [] OTHER -> s

\* if (fiber.flags & (Placement | Update | Deletion)) pushEffect(fiber)
PushIfFlagged(s, fiber) ==
  IF s.hung THEN s
  ELSE IF \/ HasBit(s.fibers[fiber].flags, Placement) \/ HasBit(s.fibers[fiber].flags, Update)
          \/ HasBit(s.fibers[fiber].flags, Deletion)
  THEN pushEffect(s, fiber)
  ELSE s

completeWork(s, fiber) == PushIfFlagged(bubbleEffects(CompleteByTag(s, fiber), fiber), fiber)

\* walk records the nodes the pass has begun and completed, in order, up to
\* Fuel entries (a record of the history, not a field of the source)
Walked(s, op, f) ==
  IF Len(s.walk) >= Fuel THEN s ELSE [s EXCEPT !.walk = Append(@, [op |-> op, f |-> f])]

RECURSIVE completeUnitOfWork(_, _, _)
RECURSIVE CompleteNext(_, _, _)
\* after completeWork(node): the sibling is the next unit, else the parent
\* is completed
CompleteNext(s, node, fuel) ==
  IF s.hung THEN s
  ELSE IF s.fibers[node].sibling # NULL THEN [s EXCEPT !.workInProgress = s.fibers[node].sibling]
  ELSE completeUnitOfWork(s, s.fibers[node].return, fuel - 1)

completeUnitOfWork(s, node, fuel) ==
  IF node = NULL THEN [s EXCEPT !.workInProgress = NULL]
  ELSE IF fuel = 0 THEN [s EXCEPT !.hung = TRUE]
  ELSE CompleteNext(completeWork(Walked(s, "complete", node), node), node, fuel)

\* units counts the units of work of the pass, up to Fuel
Bump(n) == IF n < Fuel THEN n + 1 ELSE n

\* after beginWork(fiber): its child is the next unit, else the fiber is
\* completed
BeginDone(s, fiber) ==
  IF s.hung \/ s.threw THEN s
  ELSE IF BeginNext(s, fiber) # NULL
  THEN [s EXCEPT !.workInProgress = BeginNext(s, fiber), !.units = Bump(@)]
  ELSE completeUnitOfWork([s EXCEPT !.units = Bump(@)], fiber, Fuel)

performUnitOfWork(s, fiber) == BeginDone(beginWork(Walked(s, "begin", fiber), fiber), fiber)

RECURSIVE workLoopSync(_, _)
\* while (workInProgress) performUnitOfWork(workInProgress)
workLoopSync(s, fuel) ==
  IF s.workInProgress = NULL \/ s.hung \/ s.threw THEN s
  ELSE IF fuel = 0 THEN [s EXCEPT !.hung = TRUE]
  ELSE workLoopSync(performUnitOfWork(s, s.workInProgress), fuel - 1)

\* ------------------------------------------------------------ effect flushes
\* The calls of the application's effect functions and the host removals, in
\* order (a record of the history, not a field of the source).
Event(op, kind, h, i, mark) == [op |-> op, kind |-> kind, h |-> h, i |-> i, mark |-> mark]
Logged(s, e) == [s EXCEPT !.log = Append(@, e)]

\* steps records what the last commit did, in order, and how long the log
\* was at each step (a record of the history, not a field of the source)
Step(s, op, f) == [s EXCEPT !.steps = Append(@, [op |-> op, f |-> f, at |-> Len(s.log)])]

\* Item's effect functions, by the v of the render that made them: the create
\* made with v = "boom" throws, the cleanup returned with v = "leak" throws
\* when it is called
CreateThrows(v) == v = "boom"
CleanupThrows(v) == v = "leak"

\* catch(e) { console.error(...) } for the call just logged; of is the create
\* the failed cleanup came from
Failed(s, op, h, i, of) ==
  [s EXCEPT !.errors = Append(@, [op |-> op, h |-> h, i |-> i, at |-> Len(s.log), of |-> of])]

\* try { h.destroy() } catch(e) { console.error(...) }
CallCleanup(s, kind, h, i) ==
  IF s.hooksHeap[h][i].leaky
  THEN Failed(Logged(s, Event("destroy", kind, h, i, s.hooksHeap[h][i].mark)),
              "destroy", h, i, s.hooksHeap[h][i].from)
  ELSE Logged(s, Event("destroy", kind, h, i, s.hooksHeap[h][i].mark))

\* h.create() throws: the create is the one of the hook's last render
CreateFails(s, h, i) == CreateThrows(s.hooksHeap[h][i].deps[1])

\* the call of h.create() inside try/catch
TryCreate(s, kind, h, i) ==
  IF CreateFails(s, h, i)
  THEN Failed(Logged(s, Event("create", kind, h, i, s.hooksHeap[h][i].mark)), "create", h, i, 0)
  ELSE Logged(s, Event("create", kind, h, i, s.hooksHeap[h][i].mark))

\* Item's effect functions call setList(KickArray, 'high') when they are
\* called: the useLayoutEffect create made with v = "kick", the useEffect
\* create made with v = "poke"
Kicks(kind, v) == (kind = "layout" /\ v = "kick") \/ (kind = "passive" /\ v = "poke")

\* the body of such a create: App's setState, re-entered from the flush
RECURSIVE KickSetState(_)
RunCreate(s, kind, h, i) ==
  IF ~CreateFails(s, h, i) /\ Kicks(kind, s.hooksHeap[h][i].deps[1])
  THEN KickSetState(TryCreate(s, kind, h, i))
  ELSE TryCreate(s, kind, h, i)

\* a flush that keeps a cleanup although the create threw
CleanupKept(threw) == TRUE

\* h.destroy = typeof destroy === 'function' ? destroy : null;
\* if (threw) h.destroy = null: Item's create returns a cleanup unless it throws
CleanupStored(threw) == ~threw

\* destroy = h.create(); h.destroy = function or null; firstRun = depsChanged =
\* false; if (threw) h.destroy = null (fiber.ts 1138-1142, 1177-1181). from is
\* the place in the history of the create whose cleanup is stored.
CallCreate(s, kind, h, i) ==
  [RunCreate(s, kind, h, i) EXCEPT !.hooksHeap[h][i] =
     [@ EXCEPT !.destroy = CleanupStored(CreateFails(s, h, i)), !.firstRun = FALSE, !.depsChanged = FALSE,
               !.from = IF CreateFails(s, h, i) THEN 0 ELSE Len(s.log) + 1,
               !.leaky = ~CreateFails(s, h, i) /\ CleanupThrows(s.hooksHeap[h][i].deps[1])]]

\* one hook of one fiber in flushLayoutEffects (fiber.ts 1134-1143)
LayoutHook(s, h, i) ==
  LET e == s.hooksHeap[h][i] IN
  IF ~(e.htype = "effect" /\ e.kind = "layout") \/ ~(e.firstRun \/ e.depsChanged) THEN s
  ELSE CallCreate(IF ~e.firstRun /\ e.destroy THEN CallCleanup(s, "layout", h, i) ELSE s,
                  "layout", h, i)

RECURSIVE LayoutHooks(_, _, _)
LayoutHooks(s, h, i) ==
  IF h = NULL \/ i > Len(s.hooksHeap[h]) THEN s
  ELSE LayoutHooks(LayoutHook(s, h, i), h, i + 1)

RECURSIVE LayoutFibers(_, _)
LayoutFibers(s, n) ==
  IF n > Len(s.pendingLayoutEffects) THEN s
  ELSE LayoutFibers(LayoutHooks(s, s.fibers[s.pendingLayoutEffects[n]].hooks, 1), n + 1)

\* layoutFound records what the flush finds when it begins: the queue, the hook
\* array of each queued fiber and the hooks as they are then (a record of the
\* history, not a field of the source)
FoundAtFlush(s) ==
  [s EXCEPT !.layoutFound =
     [queue |-> s.pendingLayoutEffects,
      arrays |-> [n \in DOMAIN s.pendingLayoutEffects |-> s.fibers[s.pendingLayoutEffects[n]].hooks],
      hooks |-> s.hooksHeap]]

flushLayoutEffects(s) ==
  [LayoutFibers(Step(FoundAtFlush(s), "layout", NULL), 1) EXCEPT !.pendingLayoutEffects = <<>>]

\* destroy phase of one hook (fiber.ts 1162-1167)
PassiveDestroyHook(s, h, i) ==
  LET e == s.hooksHeap[h][i] IN
  IF e.htype = "effect" /\ e.kind = "passive"
     /\ (e.firstRun \/ e.depsChanged) /\ ~e.firstRun /\ e.destroy
  THEN [CallCleanup(s, "passive", h, i) EXCEPT !.hooksHeap[h][i].destroy = FALSE]
  ELSE s

\* create phase of one hook (fiber.ts 1175-1182)
PassiveCreateHook(s, h, i) ==
  LET e == s.hooksHeap[h][i] IN
  IF e.htype = "effect" /\ e.kind = "passive" /\ (e.firstRun \/ e.depsChanged)
  THEN CallCreate(s, "passive", h, i)
  ELSE s

RECURSIVE PassiveHooks(_, _, _, _)
PassiveHooks(s, h, i, create) ==
  IF h = NULL \/ i > Len(s.hooksHeap[h]) THEN s
  ELSE PassiveHooks(IF create THEN PassiveCreateHook(s, h, i) ELSE PassiveDestroyHook(s, h, i),
                    h, i + 1, create)

RECURSIVE PassiveFibers(_, _, _)
PassiveFibers(s, n, create) ==
  IF n > Len(s.pendingPassiveEffects) THEN s
  ELSE PassiveFibers(PassiveHooks(s, s.fibers[s.pendingPassiveEffects[n]].hooks, 1, create),
                     n + 1, create)

flushPassiveEffects(s) ==
  IF s.pendingPassiveEffects = <<>> THEN [s EXCEPT !.passiveFlushScheduled = FALSE]
  ELSE
    LET s0 == Logged(s, Event("flush", "passive", 0, 0, 0))
        s1 == PassiveFibers(s0, 1, FALSE)
        s2 == PassiveFibers(s1, 1, TRUE)
    IN [s2 EXCEPT !.pendingPassiveEffects = <<>>, !.passiveFlushScheduled = FALSE]

\* ------------------------------------------------------------------ commit
RECURSIVE UnmountHooks(_, _, _)
\* runPassiveCleanupOnFiber: every effect hook with a destroy
UnmountHooks(s, h, i) ==
  IF h = NULL \/ i > Len(s.hooksHeap[h]) THEN s
  ELSE
    LET e == s.hooksHeap[h][i] IN
    IF e.htype = "effect" /\ e.destroy
    THEN UnmountHooks([CallCleanup(s, "unmount", h, i) EXCEPT
                         !.hooksHeap[h][i].destroy = FALSE], h, i + 1)
    ELSE UnmountHooks(s, h, i + 1)

runPassiveCleanupOnFiber(s, fiber) ==
  IF s.fibers[fiber].tag = "FunctionComponent" /\ s.fibers[fiber].hooks # NULL
  THEN UnmountHooks(s, s.fibers[fiber].hooks, 1)
  ELSE s

RECURSIVE cleanupPassiveEffects(_, _, _)
RECURSIVE CleanupChildren(_, _, _)
\* debugConfig.effect.cleanupOrder = 'parent-first'
cleanupPassiveEffects(s, fiber, fuel) ==
  IF fuel = 0 THEN [s EXCEPT !.hung = TRUE]
  ELSE CleanupChildren(runPassiveCleanupOnFiber(s, fiber), s.fibers[fiber].child, fuel - 1)
CleanupChildren(s, child, fuel) ==
  IF child = NULL \/ s.hung THEN s
  ELSE IF fuel = 0 THEN [s EXCEPT !.hung = TRUE]
  ELSE CleanupChildren(cleanupPassiveEffects(s, child, fuel - 1),
                       s.fibers[child].sibling, fuel - 1)

RECURSIVE HostParentFrom(_, _, _)
HostParentFrom(s, parent, fuel) ==
  IF parent = NULL \/ fuel = 0 THEN NULL
  ELSE IF s.fibers[parent].tag \in {"HostComponent", "HostRoot"} THEN s.fibers[parent].stateNode
  ELSE HostParentFrom(s, s.fibers[parent].return, fuel - 1)

findHostParent(s, fiber) == HostParentFrom(s, s.fibers[fiber].return, Fuel)

RECURSIVE commitPlacement(_, _, _)
RECURSIVE PlaceChildren(_, _, _)
commitPlacement(s, fiber, fuel) ==
  LET parentDom == findHostParent(s, fiber) IN
  IF fuel = 0 THEN [s EXCEPT !.hung = TRUE]
  ELSE IF parentDom = NULL THEN s
  ELSE IF s.fibers[fiber].tag \in {"HostComponent", "Text"}
  THEN appendChild(s, parentDom, s.fibers[fiber].stateNode)
  ELSE PlaceChildren(s, s.fibers[fiber].child, fuel - 1)
PlaceChildren(s, child, fuel) ==
  IF child = NULL \/ s.hung \/ s.threw THEN s
  ELSE IF fuel = 0 THEN [s EXCEPT !.hung = TRUE]
  ELSE PlaceChildren(commitPlacement(s, child, fuel - 1), s.fibers[child].sibling, fuel - 1)

commitUpdate(s, fiber) ==
  LET f == s.fibers[fiber] IN
  IF f.tag = "HostComponent" THEN
    LET old == IF f.alternate # NULL /\ Truthy(s.fibers[f.alternate].memoizedProps)
               THEN s.fibers[f.alternate].memoizedProps
               ELSE ObjProps(NoKey, "", 0, <<>>)
        new == IF Truthy(f.pendingProps) THEN f.pendingProps ELSE ObjProps(NoKey, "", 0, <<>>)
    IN [updateHostComponentProps(s, f.stateNode, old, new) EXCEPT
          !.fibers[fiber].memoizedProps = f.pendingProps]
  ELSE s

RECURSIVE removeHostNodes(_, _, _, _)
RECURSIVE RemoveChildren(_, _, _, _)
removeHostNodes(s, fiber, parentDom, fuel) ==
  LET f == s.fibers[fiber] IN
  IF fuel = 0 THEN [s EXCEPT !.hung = TRUE]
  ELSE IF f.tag \in {"HostComponent", "Text"} THEN
    IF f.stateNode # NULL /\ domContains(s, parentDom, f.stateNode)
    THEN Logged(removeChild(s, parentDom, f.stateNode),
                Event("remove", "", f.stateNode, fiber, 0))
    ELSE s
  ELSE RemoveChildren(s, f.child, parentDom, fuel - 1)
RemoveChildren(s, child, parentDom, fuel) ==
  IF child = NULL \/ s.hung \/ s.threw THEN s
  ELSE IF fuel = 0 THEN [s EXCEPT !.hung = TRUE]
  ELSE RemoveChildren(removeHostNodes(s, child, parentDom, fuel - 1),
                      s.fibers[child].sibling, parentDom, fuel - 1)

\* const parentDom = findHostParent(fiber); if (parentDom) removeHostNodes(...)
RemoveFromHost(s, fiber) ==
  IF s.hung \/ findHostParent(s, fiber) = NULL THEN s
  ELSE removeHostNodes(s, fiber, findHostParent(s, fiber), Fuel)

commitDeletion(s, fiber) == RemoveFromHost(cleanupPassiveEffects(s, fiber, Fuel), fiber)

\* applied records the effect-list entries of the commit, in order (a record
\* of the history, not a field of the source)
Applied(s, fiber) ==
  [s EXCEPT !.applied = Append(@, [f |-> fiber, flags |-> s.fibers[fiber].flags,
                                   pushedIn |-> s.pushPass[fiber]])]

\* the three tests of commitEffect, in order (fiber.ts 1247-1249)
ApplyPlacement(s, fiber) ==
  IF HasBit(s.fibers[fiber].flags, Placement) THEN commitPlacement(s, fiber, Fuel) ELSE s
ApplyUpdate(s, fiber) ==
  IF s.hung \/ s.threw THEN s
  ELSE IF HasBit(s.fibers[fiber].flags, Update) THEN commitUpdate(s, fiber) ELSE s
ApplyDeletion(s, fiber) ==
  IF s.hung \/ s.threw THEN s
  ELSE IF HasBit(s.fibers[fiber].flags, Deletion) THEN commitDeletion(s, fiber) ELSE s

commitEffect(s, fiber) ==
  ApplyDeletion(ApplyUpdate(ApplyPlacement(Applied(Step(s, "effect", fiber), fiber), fiber), fiber),
                fiber)

RECURSIVE EffectLoop(_, _, _)
RECURSIVE EffectNext(_, _, _)
\* effect = effect.effectNext
EffectNext(s, effect, fuel) == EffectLoop(s, s.fibers[effect].effectNext, fuel - 1)

\* while (effect) { commitEffect(effect); effect = effect.effectNext }
EffectLoop(s, effect, fuel) ==
  IF effect = NULL \/ s.hung \/ s.threw THEN s
  ELSE IF fuel = 0 THEN [s EXCEPT !.hung = TRUE]
  ELSE EffectNext(commitEffect(s, effect), effect, fuel)

\* a timer is set and the flush is not marked as scheduled
scheduleUnmarked(s) == [Step(s, "schedule", NULL) EXCEPT !.flushTimers = @ + 1]

\* setTimeout(() => flushPassiveEffects(), 0) (passiveFlushMode 'macro')
schedulePassiveFlush(s) ==
  IF s.passiveFlushScheduled THEN s
  ELSE [Step(s, "schedule", NULL) EXCEPT !.passiveFlushScheduled = TRUE, !.flushTimers = @ + 1]

\* step 5 of commitRoot (fiber.ts 1232-1234)
SchedulePending(s) ==
  IF s.pendingPassiveEffects # <<>> /\ ~s.passiveFlushScheduled
  THEN schedulePassiveFlush(s) ELSE s

\* steps 2 and 3 of commitRoot (fiber.ts 1226-1228); committedHooks gathers
\* the hook arrays of the components the committed pass has invoked
Switched(s, finished) ==
  [Step(s, "switch", finished)
     EXCEPT !.root.current = IF finished # NULL THEN finished ELSE @,
            !.root.firstEffect = NULL, !.root.lastEffect = NULL,
            !.committedHooks = @ \cup { s.fibers[f].hooks : f \in s.invoked }]

\* a commit that runs the layout effects and schedules the flush before it
\* switches root.current
SwitchLast(s, finished) ==
  IF s.hung \/ s.threw THEN s
  ELSE Step(Switched(SchedulePending(flushLayoutEffects(s)), finished), "done", NULL)

\* steps 2 to 5 of commitRoot (fiber.ts 1226-1234)
SwitchCurrent(s, finished) ==
  IF s.hung \/ s.threw THEN s
  ELSE Step(SchedulePending(flushLayoutEffects(Switched(s, finished))), "done", NULL)

commitRoot(s, finished) ==
  IF ~s.root.exists THEN s
  ELSE SwitchCurrent(
         EffectLoop([s EXCEPT !.applied = <<>>, !.commits = @ + 1, !.commitPass = s.passId,
                              !.steps = <<[op |-> "start", f |-> s.root.firstEffect,
                                           at |-> Len(s.log)]>>],
                    s.root.firstEffect, Fuel),
         finished)

\* ---------------------------------------------------------------- scheduler
\* requestIdleCallback(concurrentWorkLoop), or without it
\* setTimeout(() => concurrentWorkLoop({ timeRemaining: () => 0 }), 1):
\* one more callback outstanding.  s.idle is whether the host offers
\* requestIdleCallback.
requestConcurrentCallback(s) == [s EXCEPT !.callbacks = @ + 1]

startConcurrentWorkLoop(s) ==
  IF s.isRenderingConcurrent THEN s
  ELSE requestConcurrentCallback([s EXCEPT !.isRenderingConcurrent = TRUE])

\* shouldYield(deadline): the deadline reports no time remaining, or the
\* frame budget has elapsed
shouldYield(timeRemaining, overBudget) == timeRemaining <= 0 \/ overBudget

\* The deadline handed to concurrentWorkLoop: an idle period with time left,
\* or the timer fallback's { timeRemaining: () => 0 }.
TimeRemaining(idle) == IF idle THEN 1 ELSE 0

RECURSIVE SliceLoop(_, _)
\* while (workInProgress && !shouldYield(deadline)) performUnitOfWork(workInProgress)
\* where the frame budget is over after n units
SliceLoop(s, n) ==
  IF s.workInProgress = NULL \/ s.hung \/ s.threw
     \/ shouldYield(TimeRemaining(s.idle), n = 0) THEN s
  ELSE SliceLoop(performUnitOfWork(s, s.workInProgress), n - 1)

\* a burst that commits whatever it has built when its time is up
SliceDoneEarly(s) ==
  IF s.hung \/ s.threw THEN s
  ELSE commitRoot([s EXCEPT !.isRenderingConcurrent = FALSE, !.workInProgress = NULL],
                  s.currentWipRoot)

\* after the loop of concurrentWorkLoop (fiber.ts 1409-1416)
SliceDone(s) ==
  IF s.hung \/ s.threw THEN s
  ELSE IF s.workInProgress = NULL
  THEN commitRoot([s EXCEPT !.isRenderingConcurrent = FALSE], s.currentWipRoot)
  ELSE requestConcurrentCallback(s)

concurrentWorkLoop(s, n) == SliceDone(SliceLoop(s, n))

RootProps(ref) == ObjProps(NoKey, "", ref, <<RootElement>>)

\* if (!root) { hostRoot = createFiber(HostRoot, ...); root = { ... } }
EnsureRoot(s) ==
  IF s.root.exists THEN s
  ELSE [AllocFiber(s, [createFiber("HostRoot", RootProps(s.gen + 1), NoKey)
                         EXCEPT !.stateNode = 1])
          EXCEPT !.root = [exists |-> TRUE, container |-> 1, current |-> Len(s.fibers) + 1,
                           firstEffect |-> NULL, lastEffect |-> NULL],
                 !.gen = @ + 1]

\* highest = getHighestPriorityLane(pendingLanes || NormalLane)
HighestPending(s) ==
  getHighestPriorityLane(IF s.pendingLanes # NoLanes THEN s.pendingLanes ELSE NormalLane)

\* root.current.pendingProps = { children: [vnode] }; pendingLanes = NoLanes
\* (fiber.ts 1428-1431); highest is the lane picked at 1430; passId, units,
\* invoked, unchanged and passSync describe the pass that starts, foundEffects is the
\* head of the effect list the pass finds
StartPass(s) ==
  [s EXCEPT !.fibers[s.root.current].pendingProps = RootProps(s.gen + 1),
            !.gen = @ + 1, !.pendingLanes = NoLanes, !.passId = @ + 1, !.units = 0,
            !.invoked = {}, !.unchanged = {}, !.passSync = isSyncLane(HighestPending(s)),
            !.highest = HighestPending(s), !.foundEffects = s.root.firstEffect,
            !.walk = <<>>]

\* workInProgress = createWorkInProgress(root.current, ...); currentWipRoot = workInProgress
WipRoot(s) ==
  [createWorkInProgress(s, s.root.current, s.fibers[s.root.current].pendingProps)
     EXCEPT !.workInProgress = WipOf(s, s.root.current),
            !.currentWipRoot = WipOf(s, s.root.current)]

\* commitRoot(currentWipRoot) after workLoopSync()
CommitSync(s) == IF s.hung \/ s.threw THEN s ELSE commitRoot(s, s.currentWipRoot)

\* if (isSyncLane(highest)) { workLoopSync(); commitRoot(...) } else startConcurrentWorkLoop()
RunPass(s, highest) ==
  IF isSyncLane(highest) THEN CommitSync(workLoopSync(s, Fuel))
  ELSE startConcurrentWorkLoop(s)

renderRootConcurrentInternal(s) ==
  RunPass(WipRoot(StartPass(EnsureRoot(s))), HighestPending(s))

renderRoot(s) == renderRootConcurrentInternal(s)

\* the lane of the update replaces the pending lanes
ReplaceLane(s, lane) == [s EXCEPT !.pendingLanes = lane]

\* if (lane != null) pendingLanes = mergeLanes(pendingLanes, lane)
MergeLane(s, lane) == [s EXCEPT !.pendingLanes = mergeLanes(@, lane)]

\* a synchronous lane is pending while a time-sliced pass is in flight
Preempt(s) ==
  IF s.isRenderingConcurrent /\ isSyncLane(getHighestPriorityLane(s.pendingLanes))
  THEN [s EXCEPT !.workInProgress = NULL, !.isRenderingConcurrent = FALSE]
  ELSE s

\* catch(e) { console.error(e) }: the exception ends here
Caught(s) == [s EXCEPT !.threw = FALSE]

\* if (root && rootElement) { try { renderRoot(rootElement, root.container) }
\*                             catch(e) { console.error(e) } }
RenderMounted(s) == IF s.root.exists THEN Caught(renderRoot(s)) ELSE s

scheduleRootUpdate(s, lane) == RenderMounted(Preempt(MergeLane(s, lane)))

\* The argument of setList: an array built for the call (kind "value"), the
\* array the state holds or the function prev => prev (kind "same"), the
\* function of the button, prev => prev.slice().reverse() (kind "reverse"),
\* or the array KickArray that the module of Item builds once (kind "module").
NewArray(list) == [kind |-> "value", list |-> list]
HeldArray == [kind |-> "same", list |-> <<>>]
Reversed == [kind |-> "reverse", list |-> <<>>]

\* const KickArray = [<Item key='a' v='a'/>], built once when the module of
\* Item loads; the effect functions of Item pass this one array to setList
KickList == <<Entry("Item", "a", "a", "")>>
KickArray == [kind |-> "module", list |-> KickList]

\* prev.slice().reverse()
Reverse(list) == [i \in 1..Len(list) |-> list[Len(list) + 1 - i]]

\* next = typeof newValue === 'function' ? newValue(prev) : newValue
NextValue(prev, newValue) ==
  CASE newValue.kind \in {"value", "module"} -> newValue.list
    [] newValue.kind = "reverse" -> Reverse(prev)
    [] OTHER -> prev

\* Object.is(prev, next) for arrays: next is prev itself. An array built for
\* the call, or by slice(), is no array that existed before; KickArray is the
\* array of the cell when the last value written to the cell was KickArray.
IsHeld(cell, newValue) ==
  newValue.kind = "same" \/ (newValue.kind = "module" /\ cell.isKickArray)

\* the setState of App's state cell (hooks.ts 125-136)
setState(s, h, newValue, lane) ==
  IF IsHeld(s.hooksHeap[h][1], newValue) THEN s
  ELSE scheduleRootUpdate(
         [s EXCEPT !.hooksHeap[h][1].value = NextValue(s.hooksHeap[h][1].value, newValue),
                   !.hooksHeap[h][1].isKickArray = (newValue.kind = "module")],
         lane)

\* setList(KickArray, 'high'), which an effect function of Item calls from
\* inside a flush: the first call writes KickArray to the cell and renders and
\* commits inside the flush; a call made while the cell holds KickArray
\* returns at Object.is, so that the updates of one flush nest once
KickSetState(s) ==
  setState(s, s.fibers[s.fibers[s.root.current].child].hooks, KickArray, HighLane)

\* ------------------------------------------------------------------- state
VARIABLES
  fibers,                \* the FiberNode objects, by identity
  hooksHeap,             \* the hooks arrays, by identity
  dom,                   \* the host objects, by identity; dom[1] is the container
  root,                  \* the FiberRoot (exists = FALSE while it is null)
  workInProgress,        \* next unit of work
  currentWipRoot,        \* root fiber of the pass being built
  pendingLanes,
  isRenderingConcurrent,
  pendingLayoutEffects,
  pendingPassiveEffects,
  passiveFlushScheduled,
  callbacks,             \* concurrentWorkLoop callbacks requested and not yet run
  flushTimers,           \* passive flush timers set and not yet fired
  currentFiber,          \* hooks.ts: the fiber whose component function is running
  currentComponent,      \* hooks.ts: the legacy component instance that is rendered
  containerVnode,        \* container._vnode of render.ts: <<>> or <<vnode>>
  childrenReadOnly,      \* the host's elements have a read-only property children
  gen,                   \* arrays allocated so far (array identity)
  idle,                  \* the host offers requestIdleCallback
  initialList,           \* the list App starts with
  updates,               \* setState calls made
  tick,                  \* parity of the callbacks run
  \* records of the history, not program state:
  passId, passSync, pushPass, bornPass, units, invoked, unchanged, rendered, renderHostWrite,
  threw, hung, log, errors, applied, steps, commits, commitPass, highest, foundEffects, committedHooks,
  walk, layoutFound,
  raised, last,
  sched                  \* the state of the scheduler module (scheduler.ts)

\* the variables of the fiber and hooks modules and their history records
fiberVars ==
        <<fibers, hooksHeap, dom, root, workInProgress, currentWipRoot, pendingLanes,
          isRenderingConcurrent, pendingLayoutEffects, pendingPassiveEffects,
          passiveFlushScheduled, callbacks, flushTimers, currentFiber, currentComponent,
          containerVnode, childrenReadOnly, gen, idle, initialList, updates, tick,
          passId, passSync, pushPass, bornPass, units, invoked, unchanged, rendered, renderHostWrite,
          threw, hung, log, errors, applied, steps, commits, commitPass, highest, foundEffects,
          committedHooks, walk, layoutFound, raised, last>>

vars == <<fiberVars, sched>>

Now ==
  [fibers |-> fibers, hooksHeap |-> hooksHeap, dom |-> dom, root |-> root,
   workInProgress |-> workInProgress, currentWipRoot |-> currentWipRoot,
   pendingLanes |-> pendingLanes, isRenderingConcurrent |-> isRenderingConcurrent,
   pendingLayoutEffects |-> pendingLayoutEffects,
   pendingPassiveEffects |-> pendingPassiveEffects,
   passiveFlushScheduled |-> passiveFlushScheduled, callbacks |-> callbacks,
   flushTimers |-> flushTimers, currentFiber |-> currentFiber,
   currentComponent |-> currentComponent, containerVnode |-> containerVnode,
   childrenReadOnly |-> childrenReadOnly, out |-> <<>>, gen |-> gen, idle |-> idle,
   initialList |-> initialList, raised |-> NULL,
   passId |-> passId, passSync |-> passSync, pushPass |-> pushPass, bornPass |-> bornPass,
   units |-> units, invoked |-> invoked, unchanged |-> unchanged, rendered |-> rendered,
   renderHostWrite |-> renderHostWrite,
   threw |-> FALSE, hung |-> hung, log |-> log, errors |-> errors, applied |-> applied,
   steps |-> steps, commits |-> commits, commitPass |-> commitPass, highest |-> highest,
   foundEffects |-> foundEffects, committedHooks |-> committedHooks, walk |-> walk,
   layoutFound |-> layoutFound]

Becomes(t) ==
  /\ fibers' = t.fibers /\ hooksHeap' = t.hooksHeap /\ dom' = t.dom /\ root' = t.root
  /\ workInProgress' = t.workInProgress /\ currentWipRoot' = t.currentWipRoot
  /\ pendingLanes' = t.pendingLanes /\ isRenderingConcurrent' = t.isRenderingConcurrent
  /\ pendingLayoutEffects' = t.pendingLayoutEffects
  /\ pendingPassiveEffects' = t.pendingPassiveEffects
  /\ passiveFlushScheduled' = t.passiveFlushScheduled /\ callbacks' = t.callbacks
  /\ flushTimers' = t.flushTimers /\ gen' = t.gen /\ currentFiber' = t.currentFiber
  /\ currentComponent' = t.currentComponent /\ containerVnode' = t.containerVnode
  /\ raised' = t.raised
  /\ passId' = t.passId /\ passSync' = t.passSync /\ pushPass' = t.pushPass
  /\ bornPass' = t.bornPass /\ units' = t.units /\ invoked' = t.invoked
  /\ unchanged' = t.unchanged
  /\ rendered' = t.rendered
  /\ renderHostWrite' = t.renderHostWrite /\ threw' = t.threw /\ hung' = t.hung
  /\ log' = t.log /\ errors' = t.errors /\ applied' = t.applied /\ commits' = t.commits
  /\ commitPass' = t.commitPass /\ highest' = t.highest /\ steps' = t.steps
  /\ foundEffects' = t.foundEffects /\ committedHooks' = t.committedHooks
  /\ walk' = t.walk /\ layoutFound' = t.layoutFound
  /\ UNCHANGED <<idle, initialList, childrenReadOnly, sched>>

\* ------------------------------------------------ the standalone scheduler
\* scheduler.ts keeps its own state, apart from the fiber module: one queue
\* per priority, the work item of each component, and the host callbacks and
\* microtasks it has requested. A work item is identified by its component
\* (componentMap holds at most one per component).
Instances == {"A", "B"}
PriorityOrder == <<"user-blocking", "high", "normal", "low", "idle">>
PriorityIndex ==
  [x \in {"user-blocking", "high", "normal", "low", "idle"} |->
     CHOOSE i \in 0..4 : PriorityOrder[i + 1] = x]

\* no entry in componentMap: an index that is no priority
NoWork == Len(PriorityOrder)

\* the module state after load. requested (a record of the history, not a
\* field of the source) lists the priorities a component was scheduled with
\* since its update last ran; elapsed is the host's clock during a flush, in
\* component updates. The id and the clock readings of the stats are left out.
SchedulerLoaded ==
  [queues |-> [i \in 0..4 |-> <<>>],
   componentMap |-> [c \in Instances |-> NoWork],
   scheduled |-> FALSE, idleCallbacks |-> 0, microtasks |-> 0,
   commitCallbacks |-> FALSE,
   latestStats |-> [i \in 0..4 |-> 0],
   requested |-> [c \in Instances |-> <<>>],
   elapsed |-> 0]

\* function requestFlush(){ if (!scheduled){ scheduled = true; requestHostCallback() } }
requestFlush(p) ==
  IF p.scheduled THEN p
  ELSE [p EXCEPT !.scheduled = TRUE, !.idleCallbacks = @ + 1]

hasPending(p) == \E i \in 0..4 : p.queues[i] # <<>>

\* deadline.timeRemaining() <= 0 and now() > frameEnd after the flush has run
\* for p.elapsed updates; the deadline of the microtask flush always has time
TimeRemainingOut(p, deadline) == ~deadline.micro /\ p.elapsed >= deadline.tr
FrameOver(p, deadline) == p.elapsed >= deadline.fe

\* set.delete(work); runComponent(work.component); stats.processed[work.priority]++
RunWork(p, idx) ==
  LET c == Head(p.queues[idx]) IN
  [p EXCEPT !.queues[idx] = Tail(@),
            !.latestStats[p.componentMap[c]] = @ + 1,
            !.requested[c] = <<>>,
            !.elapsed = @ + 1]

RECURSIVE processQueue(_, _, _, _)
processQueue(p, idx, timeLimited, deadline) ==
  IF p.queues[idx] = <<>> THEN p
  ELSE IF timeLimited /\ TimeRemainingOut(p, deadline) /\ FrameOver(p, deadline) THEN p
  ELSE IF PriorityOrder[idx + 1] = "idle"
          /\ (TimeRemainingOut(p, deadline) \/ FrameOver(p, deadline)) THEN p
  ELSE processQueue(RunWork(p, idx), idx, timeLimited, deadline)

\* the end of flush: another host callback while work is left, the commit
\* callbacks otherwise
FlushEnd(p) ==
  IF hasPending(p) THEN requestFlush(p)
  ELSE [p EXCEPT !.commitCallbacks = FALSE]

\* flush(deadline); isFlushing is false whenever a handler starts, since no
\* update() of the modelled components calls back into the scheduler
flush(p, deadline) ==
  LET p0 == [p EXCEPT !.scheduled = FALSE, !.latestStats = [i \in 0..4 |-> 0],
                      !.elapsed = 0]
      p1 == processQueue(p0, 0, FALSE, deadline)
      p2 == processQueue(p1, 1, FALSE, deadline)
      p3 == processQueue(p2, 2, TRUE, deadline)
      p4 == processQueue(p3, 3, TRUE, deadline)
      p5 == processQueue(p4, 4, TRUE, deadline)
  IN [FlushEnd(p5) EXCEPT !.elapsed = 0]

\* upgradePriority(work, newP)
upgradePriority(p, c, newP) ==
  IF newP < p.componentMap[c]
  THEN [p EXCEPT !.queues[p.componentMap[c]] = RemoveAt(@, c),
                 !.componentMap[c] = newP,
                 !.queues[newP] = IF InSeq(@, c) THEN @ ELSE Append(@, c)]
  ELSE p

\* const p = (priority is one of the five names) ? priority : 'normal'
NormalPriority(priority) ==
  IF priority \in DOMAIN PriorityIndex THEN priority ELSE "normal"

\* the work item of scheduleUpdate: created, upgraded or added again
PlaceWork(p, c, idx) ==
  IF p.componentMap[c] = NoWork
  THEN [p EXCEPT !.componentMap[c] = idx, !.queues[idx] = Append(@, c)]
  ELSE IF idx < p.componentMap[c] THEN upgradePriority(p, c, idx)
  ELSE [p EXCEPT !.queues[p.componentMap[c]] = IF InSeq(@, c) THEN @ ELSE Append(@, c)]

\* scheduleUpdate(component, priority)
scheduleUpdate(p, c, priority) ==
  LET name == NormalPriority(priority)
      placed == [PlaceWork(p, c, PriorityIndex[name]) EXCEPT
                   !.requested[c] = Append(@, PriorityIndex[name])]
  IN IF name \in {"user-blocking", "high", "normal"}
     THEN [placed EXCEPT !.microtasks = @ + 1]
     ELSE requestFlush(placed)

\* scheduleCommitCallback(fn), for the one callback of the application
scheduleCommitCallback(p) == [p EXCEPT !.commitCallbacks = TRUE]

\* what the last handler was (by: a call of the application or a click of
\* the user) and what it found
Call(op, lane) ==
  [op |-> op, by |-> "call", lane |-> lane, wip |-> workInProgress, lanes |-> pendingLanes,
   inFlight |-> isRenderingConcurrent /\ workInProgress # NULL, dom |-> dom,
   list |-> <<>>, pass |-> passId, logged |-> Len(log)]

\* the state after module load, before render() is called, on a host of hosts
InitOn(lists, hosts) ==
  /\ fibers = <<>> /\ hooksHeap = <<>>
  /\ dom = <<HostNode("#container", "")>>
  /\ root = [exists |-> FALSE, container |-> NULL, current |-> NULL,
             firstEffect |-> NULL, lastEffect |-> NULL]
  /\ workInProgress = NULL /\ currentWipRoot = NULL
  /\ pendingLanes = NoLanes /\ isRenderingConcurrent = FALSE
  /\ pendingLayoutEffects = <<>> /\ pendingPassiveEffects = <<>>
  /\ passiveFlushScheduled = FALSE /\ callbacks = 0 /\ flushTimers = 0 /\ gen = 0
  /\ idle \in BOOLEAN
  /\ initialList \in lists
  /\ updates = 0 /\ tick = 0
  /\ passId = 0 /\ passSync = FALSE /\ pushPass = <<>> /\ bornPass = <<>> /\ units = 0
  /\ invoked = {} /\ unchanged = {} /\ rendered = <<>> /\ renderHostWrite = FALSE /\ threw = FALSE /\ hung = FALSE
  /\ log = <<>> /\ errors = <<>> /\ applied = <<>> /\ commits = 0 /\ commitPass = 0
  /\ highest = NoLanes /\ steps = <<>> /\ currentFiber = NULL /\ raised = NULL
  /\ currentComponent = NULL /\ containerVnode = <<>> /\ childrenReadOnly \in hosts
  /\ foundEffects = NULL /\ committedHooks = {} /\ walk = <<>>
  /\ layoutFound = [queue |-> <<>>, arrays |-> <<>>, hooks |-> <<>>]
  /\ sched = SchedulerLoaded
  /\ last = [op |-> "load", by |-> "call", lane |-> NoLanes, wip |-> NULL, lanes |-> NoLanes,
             inFlight |-> FALSE, dom |-> dom, list |-> <<>>, pass |-> 0, logged |-> 0]

\* the fiber renderer never reads the property children of a host element
InitWith(lists) == InitOn(lists, {FALSE})

\* ----------------------------------------------------------------- actions
\* render(<App/>, container) from main
Render ==
  /\ ~root.exists /\ ~hung
  /\ Becomes(renderRoot(Now))
  /\ last' = Call("render", NoLanes)
  /\ UNCHANGED <<updates, tick>>

\* the hooks array of the mounted App
AppHooks == fibers[fibers[root.current].child].hooks

\* a user event after the first commit calls App's setList(list, priority)
\* with an array built for the call
SetStateWithin(list, lane, max) ==
  /\ commits > 0 /\ ~hung /\ updates < max
  /\ fibers[root.current].child # NULL
  /\ Becomes(setState(Now, AppHooks, NewArray(list), lane))
  /\ last' = [Call("setState", lane) EXCEPT !.list = list]
  /\ updates' = updates + 1
  /\ UNCHANGED tick

SetState(list, lane) == SetStateWithin(list, lane, MaxUpdates)

\* a user event calls setList(list, priority) with the array the state holds
\* (or setList(prev => prev, priority))
SetSame(lane) ==
  /\ commits > 0 /\ ~hung /\ updates < MaxUpdates
  /\ fibers[root.current].child # NULL
  /\ Becomes(setState(Now, AppHooks, HeldArray, lane))
  /\ last' = [Call("same", lane) EXCEPT !.list = hooksHeap[AppHooks][1].value]
  /\ updates' = updates + 1
  /\ UNCHANGED tick

RECURSIVE DispatchClick(_, _, _, _)
\* the listeners of the click event are called in the order they were added;
\* each is () => setList(prev => prev.slice().reverse()), with the default
\* priority 'normal'
DispatchClick(s, h, listeners, i) ==
  IF i > Len(listeners) \/ s.hung THEN s
  ELSE DispatchClick(setState(s, h, Reversed, NormalLane), h, listeners, i + 1)

\* the user clicks the <button> b, which is attached under the container
Click(b) ==
  /\ commits > 0 /\ ~hung /\ updates < MaxUpdates
  /\ fibers[root.current].child # NULL
  /\ b \in DOMAIN dom /\ dom[b].tag = "button" /\ domContains(Now, 1, b)
  /\ dom[b].click # <<>>
  /\ Becomes(DispatchClick(Now, AppHooks, dom[b].click, 1))
  /\ last' = [Call("setState", NormalLane) EXCEPT
                !.by = "click",
                !.list = IF Len(dom[b].click) % 2 = 1 THEN Reverse(hooksHeap[AppHooks][1].value)
                         ELSE hooksHeap[AppHooks][1].value]
  /\ updates' = updates + 1
  /\ UNCHANGED tick

\* the host runs one requested concurrentWorkLoop callback; the frame budget
\* lasts n units
Callback(n) ==
  /\ callbacks > 0 /\ ~hung
  /\ Becomes(concurrentWorkLoop([Now EXCEPT !.callbacks = @ - 1], n))
  /\ last' = Call("callback", NoLanes)
  /\ tick' = 1 - tick
  /\ UNCHANGED updates

\* the timer set by schedulePassiveFlush fires
PassiveFlush ==
  /\ flushTimers > 0 /\ ~hung
  /\ Becomes(flushPassiveEffects([Now EXCEPT !.flushTimers = @ - 1]))
  /\ last' = Call("flush", NoLanes)
  /\ UNCHANGED <<updates, tick>>

\* ------------------------------------------------------------ the inputs
MaxLen == 3
MaxSchedLen == 2

\* lists of at most n entries of E in which no key occurs twice
ListsOver(E, n) ==
  { l \in UNION { [1..k -> E] : k \in 0..n } :
      \A i \in 1..Len(l) : \A j \in 1..Len(l) :
         (i < j /\ l[i].k # NoKey) => l[i].k # l[j].k }

SchedEntries == { Entry("Item", "b", "b", ""), Entry("Item", "a", "x", "") }
SchedLists == ListsOver(SchedEntries, MaxSchedLen)
SchedLanes == { HighLane, NormalLane }

ListEntries == { Entry("li", "a", "a", ""), Entry("li", "b", "b", ""), Entry("li", "c", "c", ""),
                 Entry("Item", "a", "a", ""), Entry("p", NoKey, "", ""),
                 Entry("text", NoKey, "", "t") }
ListLists == ListsOver(ListEntries, MaxLen)
MaxListUpdates == 1

\* ----------------------------------------------------------- specifications
\* Scheduling: updates of either priority arrive between the bursts of a
\* time-sliced pass; a burst is one unit of work or runs to the end.
InitSched == InitWith(SchedLists)
NextSched ==
  \/ Render
  \/ \E l \in SchedLists, lane \in SchedLanes : SetState(l, lane)
  \/ \E lane \in SchedLanes : SetSame(lane)
  \/ \E b \in DOMAIN dom : Click(b)
  \/ \E n \in {1, Fuel} : Callback(n)
  \/ PassiveFlush
SpecSched == InitSched /\ [][NextSched]_vars

\* Lists: the mount pass runs in one idle burst and MaxListUpdates updates on
\* a synchronous lane follow, over a larger choice of child lists.
InitList == InitWith(ListLists) /\ idle
NextList ==
  \/ Render
  \/ \E l \in ListLists : updates < MaxListUpdates /\ SetState(l, HighLane)
  \/ updates < MaxListUpdates /\ SetSame(HighLane)
  \/ \E b \in DOMAIN dom : updates < MaxListUpdates /\ Click(b)
  \/ Callback(Fuel)
  \/ PassiveFlush
SpecList == InitList /\ [][NextList]_vars

\* Emptied lists: the mount pass runs in one idle burst and MaxBailUpdates
\* updates on a synchronous lane follow, each to the empty list or to one
\* Item, so that a <ul> is rendered with no children several times in a row.
BailEntries == { Entry("Item", "a", "a", ""), Entry("Item", "b", "b", "") }
MaxBailLen == 1
BailLists == ListsOver(BailEntries, MaxBailLen)
MaxBailUpdates == 3
InitBail == InitWith(BailLists) /\ idle
NextBail ==
  \/ Render
  \/ \E l \in BailLists : SetStateWithin(l, HighLane, MaxBailUpdates)
  \/ Callback(Fuel)
  \/ PassiveFlush
SpecBail == InitBail /\ [][NextBail]_vars

\* Text: lists of text leaves, reconciled in linear mode by time-sliced and
\* synchronous passes. No component of these lists has
\* an effect, so no flush timer is ever requested.
TextEntries == { Entry("text", NoKey, "", "t"), Entry("text", NoKey, "", "u") }
MaxTextLen == 2
TextLists == ListsOver(TextEntries, MaxTextLen)
InitText == InitWith(TextLists)
NextText ==
  \/ Render
  \/ \E l \in TextLists, lane \in SchedLanes : SetState(l, lane)
  \/ \E n \in {1, Fuel} : Callback(n)
SpecText == InitText /\ [][NextText]_vars

\* Effects: components whose effect functions may throw, mounted in one idle
\* burst and updated on a synchronous lane, with the passive flush timer
\* firing at any point between the handlers.
EffectEntries == { Entry("Item", "a", "a", ""), Entry("Item", "a", "boom", ""),
                   Entry("Item", "a", "leak", ""), Entry("Item", "b", "b", "") }
MaxEffectLen == 2
EffectLists == ListsOver(EffectEntries, MaxEffectLen)
InitEffects == InitWith(EffectLists) /\ idle
NextEffects ==
  \/ Render
  \/ \E l \in EffectLists : SetState(l, HighLane)
  \/ SetSame(HighLane)
  \/ \E b \in DOMAIN dom : Click(b)
  \/ Callback(Fuel)
  \/ PassiveFlush
SpecEffects == InitEffects /\ [][NextEffects]_vars

\* Working copies: after the mount and at most MaxWipUpdates updates,
\* createWorkInProgress is called once on any node of the heap, or on null,
\* with any of WipInputs; last keeps the heap the call found. Nothing follows
\* the call.
WipEntries == { Entry("li", "a", "a", ""), Entry("Item", "b", "b", ""),
                Entry("text", NoKey, "", "t") }
MaxWipLen == 2
MaxWipUpdates == 1
WipLists == ListsOver(WipEntries, MaxWipLen)
WipInputs == { TextProps("z"), ObjProps(NoKey, "z", 0, <<>>) }

CallWip(current, pendingProps) ==
  /\ last.op # "wip" /\ ~hung
  /\ current \in {NULL} \cup DOMAIN fibers
  /\ Becomes(createWorkInProgress(Now, current, pendingProps))
  /\ last' = [current |-> current, pendingProps |-> pendingProps, before |-> fibers,
               result |-> IF current = NULL THEN NULL ELSE WipOf(Now, current)]
              @@ Call("wip", NoLanes)
  /\ UNCHANGED <<updates, tick>>

InitWip == InitWith(WipLists) /\ idle
NextWip ==
  \/ last.op # "wip" /\ Render
  \/ \E l \in WipLists, lane \in SchedLanes :
       last.op # "wip" /\ updates < MaxWipUpdates /\ SetState(l, lane)
  \/ \E n \in {1, Fuel} : last.op # "wip" /\ Callback(n)
  \/ last.op # "wip" /\ PassiveFlush
  \/ \E c \in {NULL} \cup DOMAIN fibers, p \in WipInputs : CallWip(c, p)
SpecWip == InitWip /\ [][NextWip]_vars

\* Lanes: scheduleRootUpdate(lane) is an export of the module; called before
\* render() has created the root it only merges its lane, so several lanes
\* can be pending when the first pass is dispatched. After the mount both
\* scheduleRootUpdate(lane) and App's setState(list, priority) dispatch at once.
AllLanes == { UserBlockingLane, HighLane, NormalLane, LowLane, IdleLane }
LaneEntries == { Entry("Item", "a", "a", "") }
MaxLaneLen == 1
MaxLaneCalls == 2
LaneLists == ListsOver(LaneEntries, MaxLaneLen)

Schedule(lane) ==
  /\ ~hung /\ updates < MaxLaneCalls
  /\ Becomes(scheduleRootUpdate(Now, lane))
  /\ last' = Call("schedule", lane)
  /\ updates' = updates + 1
  /\ UNCHANGED tick

InitLanes == InitWith(LaneLists)
NextLanes ==
  \/ Render
  \/ \E lane \in AllLanes : Schedule(lane)
  \/ \E l \in LaneLists, lane \in AllLanes : SetState(l, lane)
  \/ \E n \in {1, Fuel} : Callback(n)
  \/ PassiveFlush
SpecLanes == InitLanes /\ [][NextLanes]_vars

\* Crashes: lists with an Item whose component function throws, rendered by
\* time-sliced and synchronous passes.
CrashEntries == { Entry("Item", "a", "x", ""), Entry("Item", "c", "crash", "") }
MaxCrashLen == 2
CrashLists == ListsOver(CrashEntries, MaxCrashLen)
InitCrash == InitWith(CrashLists)
NextCrash ==
  \/ Render
  \/ \E l \in CrashLists, lane \in SchedLanes : SetState(l, lane)
  \/ \E lane \in SchedLanes : SetSame(lane)
  \/ \E b \in DOMAIN dom : Click(b)
  \/ \E n \in {1, Fuel} : Callback(n)
  \/ PassiveFlush
SpecCrash == InitCrash /\ [][NextCrash]_vars

\* Re-entry: Items whose effect functions call setList on a synchronous lane
\* from inside the flush that runs them.
KickEntries == { Entry("Item", "a", "a", ""), Entry("Item", "a", "kick", ""),
                 Entry("Item", "a", "poke", ""), Entry("Item", "b", "b", "") }
MaxKickLen == 2
KickLists == ListsOver(KickEntries, MaxKickLen)
InitKick == InitWith(KickLists) /\ idle
NextKick ==
  \/ Render
  \/ \E l \in KickLists : SetState(l, HighLane)
  \/ Callback(Fuel)
  \/ PassiveFlush
SpecKick == InitKick /\ [][NextKick]_vars

\* Dependency lists: after the mount of one Item, and its flush or not, an
\* effect hook of the Item is evaluated again, at most MaxDepCalls times, with
\* any list of DepLists; last keeps the hook the call found. Nothing else
\* follows these calls.
DepValues == { "a", "NaN", "+0", "-0" }
MaxDepLen == 2
MaxDepCalls == 2
DepLists == UNION { [1..k -> DepValues] : k \in 1..MaxDepLen }
DepMounts == { <<Entry("Item", "a", "a", "")>> }
\* what useRef is given, what the factory of useMemo returns, and the
\* functions given to useCallback (a function is known by its name)
RefValues == { "r", "q" }
MemoValues == { "m", "n" }
CallbackValues == { "f", "g" }
\* the lists the other hooks are called with
MemoLists == { <<"a">>, <<"NaN">>, <<"a", "a">> }

\* useEffect(create, deps) or useLayoutEffect(create, deps) is evaluated
\* again; the call useEffect(create) has no deps (hasDeps is FALSE)
CallEffect(h, idx, hasDeps, deps) ==
  /\ ~hung /\ updates < MaxDepCalls
  /\ h \in DOMAIN hooksHeap /\ idx \in DOMAIN hooksHeap[h]
  /\ hooksHeap[h][idx].htype = "effect"
  /\ hasDeps \/ deps = <<>>
  /\ Becomes(mountOrUpdateEffect(Now, h, idx, hooksHeap[h][idx].kind, hasDeps, deps))
  /\ last' = [h |-> h, idx |-> idx, hasDeps |-> hasDeps, deps |-> deps,
               stored |-> hooksHeap[h][idx]]
              @@ Call("effect", NoLanes)
  /\ updates' = updates + 1
  /\ UNCHANGED tick

\* A component calls its hooks in the same order in every render: hook idx
\* of the array h is evaluated for the first time (idx is the next index) or
\* again by the hook that made the entry.
HookSlot(h, idx, htype) ==
  /\ h \in DOMAIN hooksHeap
  /\ \/ idx = Len(hooksHeap[h]) + 1
     \/ idx \in DOMAIN hooksHeap[h] /\ hooksHeap[h][idx].htype = htype

\* what the hook call returned: the value the entry holds after the call
HookCall(op, h, idx, hasDeps, deps, t) ==
  [h |-> h, idx |-> idx, hasDeps |-> hasDeps, deps |-> deps,
   stored |-> IF idx \in DOMAIN hooksHeap[h] THEN <<hooksHeap[h][idx]>> ELSE <<>>,
   returned |-> t.hooksHeap[h][idx]]
  @@ Call(op, NoLanes)

\* useRef(initialValue)
CallRef(h, idx, initialValue) ==
  /\ ~hung /\ updates < MaxDepCalls /\ HookSlot(h, idx, "ref")
  /\ Becomes(useRef(Now, h, idx, initialValue))
  /\ last' = HookCall("useRef", h, idx, FALSE, <<>>, useRef(Now, h, idx, initialValue))
  /\ updates' = updates + 1
  /\ UNCHANGED tick

\* useMemo(() => value, deps)
CallMemo(h, idx, value, hasDeps, deps) ==
  /\ ~hung /\ updates < MaxDepCalls /\ HookSlot(h, idx, "memo")
  /\ hasDeps \/ deps = <<>>
  /\ Becomes(useMemo(Now, h, idx, value, hasDeps, deps))
  /\ last' = HookCall("useMemo", h, idx, hasDeps, deps, useMemo(Now, h, idx, value, hasDeps, deps))
  /\ updates' = updates + 1
  /\ UNCHANGED tick

\* useCallback(cb, deps)
CallCallback(h, idx, cb, hasDeps, deps) ==
  /\ ~hung /\ updates < MaxDepCalls /\ HookSlot(h, idx, "memo")
  /\ hasDeps \/ deps = <<>>
  /\ Becomes(useCallback(Now, h, idx, cb, hasDeps, deps))
  /\ last' = HookCall("useCallback", h, idx, hasDeps, deps,
                      useCallback(Now, h, idx, cb, hasDeps, deps))
  /\ updates' = updates + 1
  /\ UNCHANGED tick

HookCalled == last.op \in {"effect", "useRef", "useMemo", "useCallback"}

InitDeps == InitWith(DepMounts) /\ idle
NextDeps ==
  \/ ~HookCalled /\ Render
  \/ ~HookCalled /\ Callback(Fuel)
  \/ ~HookCalled /\ PassiveFlush
  \/ \E h \in DOMAIN hooksHeap, idx \in 1..2, deps \in DepLists : CallEffect(h, idx, TRUE, deps)
  \/ \E h \in DOMAIN hooksHeap, idx \in 1..2 : CallEffect(h, idx, FALSE, <<>>)
  \/ \E h \in DOMAIN hooksHeap, initialValue \in RefValues : CallRef(h, 3, initialValue)
  \/ \E h \in DOMAIN hooksHeap, value \in MemoValues, deps \in MemoLists :
       CallMemo(h, 3, value, TRUE, deps)
  \/ \E h \in DOMAIN hooksHeap, value \in MemoValues : CallMemo(h, 3, value, FALSE, <<>>)
  \/ \E h \in DOMAIN hooksHeap, cb \in CallbackValues, deps \in MemoLists :
       CallCallback(h, 3, cb, TRUE, deps)
SpecDeps == InitDeps /\ [][NextDeps]_vars

\* The legacy renderer: legacyRender and reconcile are exports of the
\* package, called with descriptions built for the call (or, legacyRender,
\* with the VNode the container holds) on the container render() is given,
\* before or after render() and its passes, at most MaxLegacyCalls times.
\* The host's elements have a read-only property children or none.
LegacyEntries == { Entry("li", "a", "a", ""), Entry("li", "b", "b", ""),
                   Entry("Item", "a", "a", ""), Entry("Item", "c", "crash", ""),
                   Entry("p", NoKey, "", "t"), Entry("text", NoKey, "", "t"),
                   Entry("text", NoKey, "", "u"), Entry("text", NoKey, "", ""),
                   Entry("null", NoKey, "", "") }
MaxLegacyLen == 2
MaxLegacyCalls == 2
LegacyLists == ListsOver(LegacyEntries, MaxLegacyLen)
LegacyMounts == { <<Entry("Item", "a", "a", "")>>, <<Entry("Item", "c", "crash", "")>> }

\* <ul>{list.map(render)}</ul>
ListElement(list) ==
  Elem("ul", NoKey, "", 1, [i \in 1..Len(list) |-> RenderEntry(list[i], 1)])

\* the descriptions rendered: a list, an entry that is an element by itself,
\* and <p v='legacy'/>
LegacyElements ==
  { ListElement(l) : l \in LegacyLists }
  \cup { RenderEntry(e, 1) : e \in { d \in LegacyEntries : d.t \notin {"text", "null"} } }
  \cup { Elem("p", NoKey, "legacy", 0, <<>>) }

LegacyRender(d) ==
  /\ ~hung /\ updates < MaxLegacyCalls
  /\ Becomes(legacyRender([Now EXCEPT !.gen = @ + 1], VNode(d, <<gen + 1>>), 1))
  /\ last' = [vnode |-> d, held |-> containerVnode] @@ Call("legacyRender", NoLanes)
  /\ updates' = updates + 1
  /\ UNCHANGED tick

\* legacyRender(vnode, container) with the VNode of the last legacyRender
LegacyRenderHeld ==
  /\ ~hung /\ updates < MaxLegacyCalls /\ containerVnode # <<>>
  /\ Becomes(legacyRender(Now, containerVnode[1], 1))
  /\ last' = [vnode |-> containerVnode[1], held |-> containerVnode]
              @@ Call("legacyRenderHeld", NoLanes)
  /\ updates' = updates + 1
  /\ UNCHANGED tick

Reconcile(d) ==
  /\ ~hung /\ updates < MaxLegacyCalls
  /\ Becomes(reconcile([Now EXCEPT !.gen = @ + 1], VNode(d, <<gen + 1>>), 1))
  /\ last' = [vnode |-> d, held |-> containerVnode] @@ Call("reconcile", NoLanes)
  /\ updates' = updates + 1
  /\ UNCHANGED tick

InitLegacy == InitOn(LegacyMounts, BOOLEAN) /\ idle
NextLegacy ==
  \/ Render
  \/ Callback(Fuel)
  \/ PassiveFlush
  \/ \E d \in LegacyElements : LegacyRender(d)
  \/ LegacyRenderHeld
  \/ \E d \in LegacyElements : Reconcile(d)
SpecLegacy == InitLegacy /\ [][NextLegacy]_vars

\* The scheduler on its own: components are scheduled with any priority name
\* (or a name that is none), the commit callback is registered, and the host
\* runs the microtasks and idle callbacks the module has requested; an idle
\* callback runs only when no microtask is left. A deadline is out of time
\* after tr updates and the frame is over after fe updates. The fiber module
\* is loaded and idle.
PriorityNames == {"user-blocking", "high", "normal", "low", "idle", "urgent"}
MaxCalls == 3
MaxPending == 2
MaxBudget == 2

ScheduleUpdate(c, priority) ==
  /\ Len(sched.requested[c]) < MaxCalls
  /\ sched.microtasks < MaxPending /\ sched.idleCallbacks < MaxPending
  /\ sched' = scheduleUpdate(sched, c, priority)
  /\ UNCHANGED fiberVars

ScheduleCommitCallback ==
  /\ ~sched.commitCallbacks
  /\ sched' = scheduleCommitCallback(sched)
  /\ UNCHANGED fiberVars

\* Promise.resolve().then(() => { if (!isFlushing) flush({ timeRemaining: () => 1 }) })
MicrotaskRuns(fe) ==
  /\ sched.microtasks > 0
  /\ sched' = flush([sched EXCEPT !.microtasks = @ - 1], [micro |-> TRUE, tr |-> 0, fe |-> fe])
  /\ UNCHANGED fiberVars

\* requestIdleCallback(flush)
IdleCallbackRuns(tr, fe) ==
  /\ sched.idleCallbacks > 0 /\ sched.microtasks = 0
  /\ sched' = flush([sched EXCEPT !.idleCallbacks = @ - 1], [micro |-> FALSE, tr |-> tr, fe |-> fe])
  /\ UNCHANGED fiberVars

InitPriority == InitWith({<<>>}) /\ idle
NextPriority ==
  \/ \E c \in Instances : \E priority \in PriorityNames : ScheduleUpdate(c, priority)
  \/ ScheduleCommitCallback
  \/ \E fe \in 0..MaxBudget : MicrotaskRuns(fe)
  \/ \E tr \in 0..MaxBudget : \E fe \in 0..MaxBudget : IdleCallbackRuns(tr, fe)
SpecPriority == InitPriority /\ [][NextPriority]_vars

\* ------------------------------------------------------- reading the host tree
\* what a host child shows: its tag, its attribute v and its text
Label(tag, v, data) == [tag |-> tag, v |-> v, data |-> data]

\* the children of host object n, in order
HostLabels(d, n) ==
  [i \in 1..Len(d[n].children) |->
     Label(d[d[n].children[i]].tag, d[d[n].children[i]].v, d[d[n].children[i]].data)]

\* the host children a list describes: null entries describe none, an Item
\* renders <li v/>
EntryLabel(e) ==
  CASE e.t = "text" -> Label("#text", "", e.x)
    [] e.t = "Item" -> Label("li", e.a, "")
    [] OTHER -> Label(e.t, e.a, "")

RECURSIVE ExpectedLabels(_)
ExpectedLabels(list) ==
  IF list = <<>> THEN <<>>
  ELSE IF Head(list).t = "null" THEN ExpectedLabels(Tail(list))
  ELSE <<EntryLabel(Head(list))>> \o ExpectedLabels(Tail(list))

\* the container holds one <div> that holds the <ul>, whose children are those
\* of the list, and the <button> with its text
HostShows(d, list) ==
  /\ Len(d[1].children) = 1
  /\ d[d[1].children[1]].tag = "div"
  /\ Len(d[d[1].children[1]].children) = 2
  /\ LET ul == d[d[1].children[1]].children[1]
         button == d[d[1].children[1]].children[2]
     IN /\ d[ul].tag = "ul"
        /\ HostLabels(d, ul) = ExpectedLabels(list)
        /\ d[button].tag = "button"
        /\ HostLabels(d, button) = <<Label("#text", "", ButtonText)>>

\* --------------------------------------------------------------------- C1
\* The last handler was a setState on a synchronous lane that found a
\* time-sliced pass in flight and returned.
Preempted == last.op = "setState" /\ isSyncLane(last.lane) /\ last.inFlight /\ ~hung

\* C1: when a UserBlocking or High update arrives while a time-sliced pass is
\* in flight, the commit of the synchronous pass applies no effect that the
\* discarded pass put on the effect list, and the host tree afterwards shows
\* the synchronous update's list and nothing else.
C1_PreemptionAppliesOnlySyncPass ==
  Preempted =>
    /\ \A i \in 1..Len(applied) : applied[i].pushedIn = commitPass
    /\ HostShows(dom, last.list)

\* --------------------------------------------------------------------- C2
\* The last handler was a setState on a lane that is not synchronous and
\* found a time-sliced pass in flight.
LowerArrival == last.op = "setState" /\ ~isSyncLane(last.lane) /\ last.inFlight /\ ~hung

\* C2: an update on a non-synchronous lane that arrives while a time-sliced
\* pass is in flight does not preempt it: the pass and its work-in-progress
\* pointer are left as they were and the lane is only merged into the
\* pending set.
C2_LowerLaneDoesNotPreempt ==
  LowerArrival =>
    /\ passId = last.pass
    /\ workInProgress = last.wip
    /\ pendingLanes = mergeLanes(last.lanes, last.lane)

\* --------------------------------------------------------------------- C3
\* C3: an update on the UserBlocking or High lane is rendered to completion
\* and committed before setState returns: on return there is no work in
\* progress and the committed tree is the one the pass built.
C3_SyncUpdateCommitsBeforeReturn ==
  (last.op = "setState" /\ isSyncLane(last.lane)) =>
    /\ ~hung
    /\ workInProgress = NULL
    /\ root.current = currentWipRoot
    /\ commitPass = passId

\* --------------------------------------------------------------------- C4
\* A requested callback is outstanding and the host runs it.  Callback is the
\* only action that changes tick, and it can be taken exactly when a callback
\* is outstanding.
CallbackRuns == callbacks > 0 /\ ~hung /\ tick' = 1 - tick

\* The host runs every callback requested through requestIdleCallback or
\* setTimeout.
FairSched == SpecSched /\ WF_tick(CallbackRuns)

\* C4: a time-sliced pass in flight is eventually committed unless another
\* update replaces it, with idle callbacks and with the timer fallback alike.
C4_TimeSlicedPassCommits ==
  \A p \in 1..(MaxUpdates + 1) :
    (passId = p /\ ~passSync /\ workInProgress # NULL) ~> (commitPass = p \/ passId > p)

\* ------------------------------------------------- reading the fiber tree
\* the nodes linked from f through sibling
RECURSIVE Chain(_, _, _)
Chain(fs, f, fuel) ==
  IF f = NULL \/ fuel = 0 THEN <<>> ELSE <<f>> \o Chain(fs, fs[f].sibling, fuel - 1)

\* the committed <ul> node: root.current -> App -> div -> ul
CommittedUl == fibers[fibers[fibers[root.current].child].child].child

\* The first update after the mount has been rendered and committed: the old
\* child list is initialList, the new one is last.list.
AfterFirstUpdate ==
  last.op = "setState" /\ updates = 1 /\ ~hung /\ commitPass = passId

\* the child chains of the <ul> before and after that update
OldChildren == Chain(fibers, fibers[fibers[CommittedUl].alternate].child, Fuel)
NewChildren == Chain(fibers, fibers[CommittedUl].child, Fuel)

IsReused(x) == \E j \in DOMAIN NewChildren : fibers[NewChildren[j]].alternate = x
Deletions(x) ==
  Cardinality({ i \in DOMAIN applied : applied[i].f = x /\ HasBit(applied[i].flags, Deletion) })
NoDeletionApplied == \A i \in DOMAIN applied : ~HasBit(applied[i].flags, Deletion)

AllKeyed(list) == \A i \in DOMAIN list : list[i].t \notin {"text", "null"} /\ list[i].k # NoKey
OldIdx(e) == CHOOSE i \in DOMAIN initialList : initialList[i] = e

\* --------------------------------------------------------------------- C5
\* C5: after a keyed or linear reconciliation has been committed, every old
\* child that no new child reuses is on the committed effect list exactly
\* once with the Deletion bit, and the cleanups of a deleted component ran
\* before the host object under it was removed.
C5_UnusedOldChildDeletedOnce ==
  AfterFirstUpdate =>
    /\ \A k \in DOMAIN OldChildren :
         ~IsReused(OldChildren[k]) => Deletions(OldChildren[k]) = 1
    /\ \A i \in DOMAIN log : \A j \in DOMAIN log :
         ( /\ log[i].op = "remove" /\ log[j].op = "destroy" /\ log[j].kind = "unmount"
           /\ fibers[log[i].i].return # NULL
           /\ fibers[fibers[log[i].i].return].hooks = log[j].h ) => j < i

\* --------------------------------------------------------------------- C6
\* A keyed list was replaced by a keyed list.
KeyedUpdate ==
  /\ AfterFirstUpdate /\ initialList # <<>> /\ last.list # <<>>
  /\ AllKeyed(initialList) /\ AllKeyed(last.list)

\* C6: after the commit of a keyed update the host children of the <ul> are
\* the host objects of the new list, in new-list order.
C6_KeyedUpdateHostOrder == KeyedUpdate => HostShows(dom, last.list)

\* --------------------------------------------------------------------- C7
\* the new list holds the entries of the old list, unchanged, in some order
PermutationUpdate ==
  /\ KeyedUpdate /\ Len(last.list) = Len(initialList)
  /\ { last.list[i] : i \in DOMAIN last.list } = { initialList[i] : i \in DOMAIN initialList }

\* the highest old index among the nodes kept in place in new[1..j] (0: none)
RECURSIVE LastPlaced(_, _)
LastPlaced(new, j) ==
  IF j = 0 THEN 0
  ELSE IF OldIdx(new[j]) < LastPlaced(new, j - 1) THEN LastPlaced(new, j - 1)
  ELSE OldIdx(new[j])

\* C7: a keyed permutation of unchanged entries marks Placement only on a
\* node whose old index is below that of a node kept earlier in the walk, and
\* marks no Update and no Deletion.
C7_PermutationMarksOnlyMoves ==
  PermutationUpdate =>
    /\ Len(NewChildren) = Len(last.list)
    /\ \A j \in DOMAIN NewChildren :
         /\ ~HasBit(fibers[NewChildren[j]].flags, Update)
         /\ ~HasBit(fibers[NewChildren[j]].flags, Deletion)
         /\ HasBit(fibers[NewChildren[j]].flags, Placement)
              => OldIdx(last.list[j]) < LastPlaced(last.list, j - 1)
    /\ NoDeletionApplied

\* --------------------------------------------------------------------- C8
ListABC == <<Entry("li", "a", "a", ""), Entry("li", "b", "b", ""), Entry("li", "c", "c", "")>>
ListCAB == <<Entry("li", "c", "c", ""), Entry("li", "a", "a", ""), Entry("li", "b", "b", "")>>

\* the mounted list [A,B,C] has been reconciled against [C,A,B] and committed
ReorderedCAB ==
  AfterFirstUpdate /\ initialList = ListABC /\ last.list = ListCAB /\ Len(NewChildren) = 3

\* C8 as stated: C alone is marked Placement, A and B are unmarked, there
\* is no Deletion and the host order is C,A,B.
C8_AsStated ==
  ReorderedCAB =>
    /\ fibers[NewChildren[1]].flags = Placement
    /\ fibers[NewChildren[2]].flags = NoFlags
    /\ fibers[NewChildren[3]].flags = NoFlags
    /\ NoDeletionApplied
    /\ HostShows(dom, ListCAB)

\* C8: [A,B,C] -> [C,A,B] keeps C in place and marks the two nodes behind it,
\* A and B, with Placement; there is no Deletion and the host order is C,A,B.
C8_ReorderMarksAAndB ==
  ReorderedCAB =>
    /\ fibers[NewChildren[1]].flags = NoFlags
    /\ fibers[NewChildren[2]].flags = Placement
    /\ fibers[NewChildren[3]].flags = Placement
    /\ NoDeletionApplied
    /\ HostShows(dom, ListCAB)

\* the commit of the reordered list has applied the Placement of A and shows C,A,B
C8_Reordered ==
  /\ ReorderedCAB /\ HostShows(dom, ListCAB)
  /\ \E i \in DOMAIN applied :
       applied[i].f = NewChildren[2] /\ HasBit(applied[i].flags, Placement)

\* --------------------------------------------------------------------- C9
\* C9: a component that enters a pass with an alternate, with an input
\* shallow-equal to the input its alternate was committed with and with none
\* of Update, Placement and Deletion set is not invoked in the pass; once the
\* pass is committed its child is the clone of the committed child, keeps the
\* host object, and the commit has applied no host mutation to either.
C9_UnchangedComponentBailsOut ==
  \A n \in unchanged :
    LET y == fibers[n] IN
    /\ n \notin invoked
    /\ (commitPass = passId /\ ~hung) =>
         /\ y.child # NULL /\ fibers[y.alternate].child # NULL
         /\ fibers[y.child].alternate = fibers[y.alternate].child
         /\ fibers[y.child].stateNode = fibers[fibers[y.alternate].child].stateNode
         /\ \A i \in DOMAIN applied : applied[i].f \notin {n, y.child}

\* -------------------------------------------------------------------- C10
\* C10: of the effects marked by one render pass, every layout create runs
\* before any passive create; and inside one passive flush no cleanup runs
\* after a create.
C10_LayoutBeforePassive ==
  /\ \A i \in DOMAIN log : \A j \in DOMAIN log :
       ( /\ log[i].op = "create" /\ log[i].kind = "passive"
         /\ log[j].op = "create" /\ log[j].kind = "layout"
         /\ log[i].mark = log[j].mark ) => j < i
  /\ \A i \in DOMAIN log : \A j \in DOMAIN log :
       ( /\ i < j /\ log[i].op = "create" /\ log[i].kind = "passive"
         /\ log[j].op = "destroy" /\ log[j].kind = "passive" )
       => \E k \in (i + 1)..(j - 1) : log[k].op = "flush"
\* -------------------------------------------------------------------- C11
\* an effect of the component whose hooks array is h was destroyed by the
\* deletion of the component, as event i of the history
DestroyedByDeletion(i) == log[i].op = "destroy" /\ log[i].kind = "unmount"

\* event j calls a create or a cleanup of a flush on the hooks array of event i,
\* or once more the cleanup that event i has called
CalledAgain(i, j) ==
  /\ i < j /\ log[j].h = log[i].h
  /\ log[j].op \in {"create", "destroy"}
  /\ (log[j].kind # "unmount" \/ log[j].i = log[i].i)

\* C11: after the deletion of a component has invoked the destroy of one of
\* its effects, no create and no destroy of its effects is invoked any more,
\* not even a create that was pending in the passive queue at the deletion.
C11_DeletedIsTerminal ==
  \A i \in DOMAIN log : \A j \in DOMAIN log :
    DestroyedByDeletion(i) => ~CalledAgain(i, j)

\* -------------------------------------------------------------------- C12
RECURSIVE Attached(_, _, _)
\* the host tree below host object n: what each attached node shows and its
\* children, in order
Attached(d, n, fuel) ==
  [tag |-> d[n].tag, v |-> d[n].v, data |-> d[n].data,
   kids |-> IF fuel = 0 THEN <<>>
            ELSE [i \in 1..Len(d[n].children) |-> Attached(d, d[n].children[i], fuel - 1)]]

\* the host tree under the container
HostTree(d) == Attached(d, 1, Fuel)

\* the last handler was a slice of a time-sliced pass that performed units of
\* work and left the pass in flight: it ran render-phase code only
RenderOnlySlice ==
  last.op = "callback" /\ ~hung /\ workInProgress # NULL /\ last.wip # workInProgress

\* C12: the render phase changes nothing in the host tree: after a slice that
\* only ran beginWork and completeWork the host tree is what it was before.
C12_RenderLeavesHostTree == RenderOnlySlice => HostTree(dom) = HostTree(last.dom)

\* -------------------------------------------------------------------- C13
\* the hook an error record is about
HookOf(r) == hooksHeap[r.h][r.i]

\* a create of the same hook is called after place n of the history
CreatedAfter(r, n) ==
  \E j \in DOMAIN log : j > n /\ log[j].op = "create" /\ log[j].h = r.h /\ log[j].i = r.i

\* after a create that threw the hook holds no cleanup (until a later create
\* stores one), and a cleanup that threw is no longer the hook's cleanup
NoCleanupLeft(r) ==
  IF r.op = "create" THEN CreatedAfter(r, r.at) \/ ~HookOf(r).destroy
  ELSE ~(HookOf(r).destroy /\ HookOf(r).from = r.of)

\* the create that threw is not called again for the same change of the
\* dependencies
NotRetried(r) ==
  r.op = "create" =>
    \A j \in DOMAIN log :
      (j > r.at /\ log[j].op = "create" /\ log[j].h = r.h /\ log[j].i = r.i)
         => log[j].mark # log[r.at].mark

\* some effect hook of that kind is still due
SomePending(kind) ==
  \E h \in DOMAIN hooksHeap : \E i \in DOMAIN hooksHeap[h] :
     /\ hooksHeap[h][i].htype = "effect" /\ hooksHeap[h][i].kind = kind
     /\ (hooksHeap[h][i].firstRun \/ hooksHeap[h][i].depsChanged)

\* the last handler ended with a commit, and so with a layout flush
JustCommitted ==
  last.op \in {"setState", "callback"} /\ ~hung /\ commitPass = passId /\ workInProgress = NULL

\* the flush still runs every other effect that is due
RestOfFlushRuns ==
  /\ (errors # <<>> /\ last.op = "flush") => ~SomePending("passive")
  /\ (errors # <<>> /\ JustCommitted) => ~SomePending("layout")

\* C13 as stated: when the handler in which an effect's create or cleanup
\* threw is over, that effect has no cleanup action; it is not retried and the
\* rest of the flush runs.
C13_AsStated ==
  /\ \A n \in DOMAIN errors :
       /\ errors[n].at > last.logged => ~HookOf(errors[n]).destroy
       /\ NotRetried(errors[n])
  /\ RestOfFlushRuns

\* C13: an error thrown by an effect's create or cleanup is caught; the effect
\* keeps no cleanup from the call that threw (a create that threw stores none,
\* a cleanup that threw is dropped, and the create that follows it in the same
\* flush stores its own), the create is not called again for the same
\* dependencies, and the flush still runs every other effect that is due.
C13_ThrowingEffectIsContained ==
  /\ \A n \in DOMAIN errors : NoCleanupLeft(errors[n]) /\ NotRetried(errors[n])
  /\ RestOfFlushRuns

\* a passive create has thrown and the same flush has then run the create of
\* another component
C13_ThrowInFlush ==
  /\ last.op = "flush"
  /\ \E n \in DOMAIN errors : \E j \in DOMAIN log :
       /\ errors[n].op = "create" /\ log[errors[n].at].kind = "passive"
       /\ j > errors[n].at /\ log[j].op = "create" /\ log[j].h # errors[n].h
       /\ \A k \in errors[n].at..j : log[k].op # "flush"

\* -------------------------------------------------------------------- C14
\* nothing is under way: no pass in flight, no flush requested or due
Quiet ==
  /\ ~hung /\ workInProgress = NULL /\ ~isRenderingConcurrent
  /\ flushTimers = 0 /\ pendingPassiveEffects = <<>>

\* the creates of hook i of array h that were called for its current
\* dependency list
CreatesOf(h, i) ==
  { j \in DOMAIN log : /\ log[j].op = "create" /\ log[j].h = h /\ log[j].i = i
                       /\ log[j].mark = hooksHeap[h][i].mark }

\* C14: a passive effect whose component was rendered again with the same
\* dependency list has had its create called exactly once for that list, as
\* soon as nothing is under way any more.
C14_SameDepsCreateOnce ==
  Quiet =>
    \A h \in DOMAIN hooksHeap : \A i \in DOMAIN hooksHeap[h] :
      ( /\ hooksHeap[h][i].htype = "effect" /\ hooksHeap[h][i].kind = "passive"
        /\ hooksHeap[h][i].again )
      => Cardinality(CreatesOf(h, i)) = 1

\* -------------------------------------------------------------------- C15
\* the last handler started a render pass
PassStarted == passId # last.pass

\* the last handler found a pass in flight and did not discard it: the lane
\* it brought is not a synchronous one
FoundUndiscarded == last.inFlight /\ ~isSyncLane(last.lane)

\* every effect the last commit applied was put on the effect list by the
\* pass that was committed
CommitsOwnEffects == \A i \in DOMAIN applied : applied[i].pushedIn = commitPass

\* C15: one render pass at a time: a pass starts only when the pass before it
\* has been committed or discarded, and nothing of a discarded pass is
\* committed.
C15_OnePassAtATime ==
  /\ PassStarted => ~FoundUndiscarded
  /\ ~hung => CommitsOwnEffects

\* -------------------------------------------------------------------- C16
\* alternate pairs the nodes: a node is not its own alternate and is the
\* alternate of its alternate
AlternateSymmetric ==
  \A n \in DOMAIN fibers :
    fibers[n].alternate # NULL =>
      /\ fibers[n].alternate # n
      /\ fibers[fibers[n].alternate].alternate = n

\* the last handler was createWorkInProgress on a node that had an alternate
WipReused ==
  last.op = "wip" /\ last.current # NULL /\ last.before[last.current].alternate # NULL

\* the last handler was createWorkInProgress on a node without an alternate
WipFresh ==
  last.op = "wip" /\ last.current # NULL /\ last.before[last.current].alternate = NULL

\* C16: alternate is symmetric, so that a node identity has at most two node
\* objects, and createWorkInProgress on a node that has an alternate returns
\* that alternate and allocates nothing.
C16_AlternatePairs ==
  /\ AlternateSymmetric
  /\ WipReused =>
       /\ Len(fibers) = Len(last.before)
       /\ last.result = last.before[last.current].alternate

\* createWorkInProgress has reused the alternate of a node that a pass before
\* had built
C16_Reused == WipReused /\ passId >= 2 /\ last.before[last.current].tag = "HostComponent"

\* -------------------------------------------------------------------- C17
\* C17: createWorkInProgress(current, input) on a node with an alternate
\* returns the alternate with pendingProps = input, no flags, no subtreeFlags,
\* no effectNext and current's type; on a node without one it returns a new
\* node with current's tag, key, type and host object.
C17_WorkInProgressShape ==
  /\ WipReused =>
       /\ last.result = last.before[last.current].alternate
       /\ fibers[last.result].pendingProps = last.pendingProps
       /\ fibers[last.result].flags = NoFlags
       /\ fibers[last.result].subtreeFlags = NoFlags
       /\ fibers[last.result].effectNext = NULL
       /\ fibers[last.result].type = last.before[last.current].type
  /\ WipFresh =>
       /\ last.result = Len(last.before) + 1 /\ Len(fibers) = Len(last.before) + 1
       /\ fibers[last.result].tag = last.before[last.current].tag
       /\ fibers[last.result].key = last.before[last.current].key
       /\ fibers[last.result].type = last.before[last.current].type
       /\ fibers[last.result].stateNode = last.before[last.current].stateNode

\* the alternate that was reused carried flags and an effect-list pointer
C17_ResetSeen ==
  /\ WipReused
  /\ last.before[last.result].flags # NoFlags
  /\ last.before[last.result].effectNext # NULL

\* -------------------------------------------------------------------- C18
\* the last handler was createWorkInProgress(null, input)
WipOfNull == last.op = "wip" /\ last.current = NULL

\* C18: createWorkInProgress on a null node throws at once: no node is
\* allocated and no node, host object or hooks array is changed.
C18_NullCurrentIsFatal ==
  WipOfNull => threw /\ fibers = last.before /\ dom = last.dom /\ workInProgress = last.wip

\* createWorkInProgress(null, input) was called on a heap that holds nodes
C18_NullCalled == WipOfNull /\ fibers # <<>>

\* --------------------------------------------------------------------- C19
\* an old entry and a new entry that the positional walk pairs
SameSlot(o, n) == IF n.t = "text" THEN o.t = "text" ELSE o.t = n.t /\ o.k = n.k

\* new child j was built from the old child at the same position, or fresh
PositionalMatch ==
  \A j \in DOMAIN last.list :
    IF j <= Len(initialList) /\ SameSlot(initialList[j], last.list[j])
    THEN fibers[NewChildren[j]].alternate = OldChildren[j]
    ELSE fibers[NewChildren[j]].alternate = NULL

\* new child j was built from the old child of the same key and type, wherever
\* it stood, or fresh
KeyedMatch ==
  \A j \in DOMAIN last.list :
    LET same == { i \in DOMAIN initialList :
                    initialList[i].t = last.list[j].t /\ initialList[i].k = last.list[j].k } IN
    IF same = {} THEN fibers[NewChildren[j]].alternate = NULL
    ELSE \E i \in same : fibers[NewChildren[j]].alternate = OldChildren[i]

\* some but not all entries of the new list carry a key, none is a text leaf
PartlyKeyed(list) ==
  /\ \E i \in DOMAIN list : list[i].k # NoKey
  /\ \E i \in DOMAIN list : list[i].k = NoKey
  /\ \A i \in DOMAIN list : list[i].t # "text"

\* C19: the children of the <ul> are matched by key exactly when every entry
\* of the new list has a key and none is a text leaf; every other list, one
\* in which only some entries have keys included, is matched by position.
C19_KeyedOnlyWhenAllKeyed ==
  (AfterFirstUpdate /\ Len(NewChildren) = Len(last.list)) =>
    IF AllKeyed(last.list) THEN KeyedMatch ELSE PositionalMatch

\* --------------------------------------------------------------------- C20
\* the lanes of a mask, and the mask of a set of lanes
LaneSet(m) == { l \in AllLanes : HasBit(m, l) }

\* the lanes that were pending when the last handler reached its dispatch, or
\* its end: those it found and the one it was called with
PendingAtDispatch ==
  LaneSet(last.lanes) \cup (IF last.op \in {"schedule", "setState"} THEN {last.lane} ELSE {})

\* UserBlocking comes before High, High before Normal, Normal before Low, Low
\* before Idle
Before(a, b) ==
  \E i \in 1..5 : \E j \in 1..5 :
    /\ i < j
    /\ a = <<UserBlockingLane, HighLane, NormalLane, LowLane, IdleLane>>[i]
    /\ b = <<UserBlockingLane, HighLane, NormalLane, LowLane, IdleLane>>[j]

\* the last handler dispatched a pass
Dispatched == last.op \in {"render", "schedule", "setState"} /\ passId = last.pass + 1

\* C20: the lane of an update is added to the pending lanes and none is lost;
\* a dispatch picks the pending lane that comes first in priority, the Normal
\* lane when none is pending, and leaves no lane pending.
C20_LanesMergedAndHighestPicked ==
  (last.op \in {"render", "schedule", "setState"} /\ ~hung) =>
    IF Dispatched
    THEN /\ pendingLanes = NoLanes
         /\ IF PendingAtDispatch = {} THEN highest = NormalLane
            ELSE /\ highest \in PendingAtDispatch
                 /\ \A l \in PendingAtDispatch : ~Before(l, highest)
    ELSE LaneSet(pendingLanes) = PendingAtDispatch

\* a dispatch found more than one lane pending and picked one that is neither
\* the last one merged nor the Normal lane
C20_SeveralPending ==
  /\ Dispatched /\ ~hung
  /\ Cardinality(PendingAtDispatch) >= 2
  /\ highest # NormalLane /\ highest # last.lane /\ pendingLanes = NoLanes

\* --------------------------------------------------------------------- C21
\* the last commit ran to its end
CommitDone == steps # <<>> /\ steps[Len(steps)].op = "done" /\ ~hung

\* the place of the switch of root.current among the steps of the commit
SwitchAt == CHOOSE k \in DOMAIN steps : steps[k].op = "switch"

\* the calls logged after step i and up to step j
LoggedBetween(i, j) == { n \in DOMAIN log : steps[i].at < n /\ n <= steps[j].at }

\* steps 2 .. SwitchAt - 1 are mutations, the first one of the node that
\* root.firstEffect named when the commit began
MutationsFirst ==
  /\ \A i \in 2..(SwitchAt - 1) : steps[i].op = "effect"
  /\ Len(applied) = SwitchAt - 2
  /\ \A i \in 1..Len(applied) : applied[i].f = steps[i + 1].f
  /\ IF SwitchAt = 2 THEN steps[1].f = NULL ELSE steps[2].f = steps[1].f

\* the mutated nodes follow one another through effectNext, to the end of the
\* list (read while no later pass has touched the links)
MutationsInListOrder ==
  /\ \A i \in 2..(SwitchAt - 2) : steps[i + 1].f = fibers[steps[i].f].effectNext
  /\ SwitchAt > 2 => fibers[steps[SwitchAt - 1].f].effectNext = NULL

\* after the switch come the layout effects, then at most one scheduling of
\* the flush, then the end
LayoutThenSchedule ==
  /\ Len(steps) \in {SwitchAt + 2, SwitchAt + 3}
  /\ steps[SwitchAt + 1].op = "layout"
  /\ Len(steps) = SwitchAt + 3 => steps[SwitchAt + 2].op = "schedule"

\* C21: a commit applies the host mutations of the effect list in list order,
\* then switches root.current to the finished tree and empties the effect
\* list, then runs the layout effects, then schedules the flush; the only
\* effect functions called during the mutations are the cleanups of deleted
\* components, and no passive effect is flushed inside the commit.
C21_CommitOrder ==
  CommitDone =>
    /\ steps[1].op = "start" /\ \E k \in DOMAIN steps : steps[k].op = "switch"
    /\ MutationsFirst
    /\ LayoutThenSchedule
    /\ \A n \in LoggedBetween(1, SwitchAt) : log[n].kind = "unmount" \/ log[n].op = "remove"
    /\ LoggedBetween(SwitchAt, SwitchAt + 1) = {}
    /\ \A n \in LoggedBetween(SwitchAt + 1, Len(steps)) : log[n].kind = "layout"
    /\ steps[Len(steps) - 1].op = "schedule" => steps[Len(steps) - 1].at = steps[Len(steps)].at
    /\ commitPass = passId =>
         /\ MutationsInListOrder
         /\ root.firstEffect = NULL /\ root.lastEffect = NULL
         /\ steps[SwitchAt].f # NULL => root.current = steps[SwitchAt].f

\* a commit applied mutations, called a cleanup of a deleted component, ran a
\* layout effect and scheduled the flush
C21_FullCommit ==
  /\ CommitDone /\ SwitchAt > 2
  /\ LoggedBetween(1, SwitchAt) # {}
  /\ LoggedBetween(SwitchAt + 1, Len(steps)) # {}
  /\ steps[Len(steps) - 1].op = "schedule"

\* --------------------------------------------------------------------- C22
\* the first pass on the empty container has committed and nothing else has
\* happened since
MountCommitted == commits = 1 /\ commitPass = 1 /\ passId = 1 /\ updates = 0 /\ ~hung

\* a host object of the described tree
Described(tag, v, data, kids) == [tag |-> tag, v |-> v, data |-> data, kids |-> kids]

\* the host tree that <App/> describes with the list it starts with: the
\* container, one <div>, in it the <ul> with one leaf per non-null entry, in
\* list order, and the <button> with its text
DescribedTree(list) ==
  Described("#container", "", "",
    << Described("div", "", "",
         << Described("ul", "", "",
              [i \in 1..Len(ExpectedLabels(list)) |->
                 Described(ExpectedLabels(list)[i].tag, ExpectedLabels(list)[i].v,
                           ExpectedLabels(list)[i].data, <<>>)]),
            Described("button", "", "", << Described("#text", "", ButtonText, <<>>) >>) >>) >>)

\* C22: after the first pass on an empty container has committed, the host
\* tree under the container is the described tree, one host object for each
\* host element and each text leaf and no other, nested and ordered as
\* described.
C22_MountMirrorsDescription ==
  MountCommitted =>
    /\ HostTree(dom) = DescribedTree(initialList)
    /\ Len(dom) = 5 + Len(ExpectedLabels(initialList))

\* a list of three entries, a component, a host element and a text leaf among
\* them, was mounted
C22_MixedMount ==
  /\ MountCommitted /\ Len(initialList) = 3
  /\ \E i \in 1..3 : initialList[i].t = "Item"
  /\ \E i \in 1..3 : initialList[i].t = "text"
  /\ \E i \in 1..3 : initialList[i].t = "p"
  /\ Len(dom[dom[dom[1].children[1]].children[1]].children) = 3

\* --------------------------------------------------------------------- C23
\* a step of the program sets a flush timer only when no flush is scheduled
\* and passive effects are pending, and marks the flush as scheduled
TimerSetOnlyWhenNeeded ==
  flushTimers' > flushTimers =>
    /\ ~passiveFlushScheduled /\ flushTimers = 0 /\ flushTimers' = 1
    /\ passiveFlushScheduled' /\ pendingPassiveEffects' # <<>>

\* the flush that a timer runs clears the mark and empties the pending list
FlushClearsMark ==
  last'.op = "flush" =>
    /\ passiveFlushScheduled /\ flushTimers = 1
    /\ ~passiveFlushScheduled' /\ flushTimers' = 0 /\ pendingPassiveEffects' = <<>>

\* C23: at most one passive flush is scheduled at any time: a commit
\* schedules one only when passive effects are pending and none is scheduled,
\* the mark is set exactly while the timer is outstanding, and it is cleared
\* when that flush has run.
C23_OneFlushScheduled ==
  [][ /\ TimerSetOnlyWhenNeeded /\ FlushClearsMark
      /\ flushTimers' <= 1 /\ (passiveFlushScheduled' <=> flushTimers' = 1) ]_vars

\* a commit found a flush already scheduled and passive effects pending, and
\* set no second timer
C23_CommitWhileScheduled ==
  /\ last.op = "setState" /\ CommitDone /\ commitPass = passId /\ last.pass < passId
  /\ steps[Len(steps) - 1].op # "schedule"
  /\ Len(pendingPassiveEffects) >= 2
  /\ passiveFlushScheduled /\ flushTimers = 1

\* --------------------------------------------------------------------- C24
\* C24: when a component function throws during a pass, the exception does
\* not leave the work loop of the handler and the hook context is closed as
\* after an invocation that returned.
C24_ComponentErrorIsContained ==
  raised # NULL => ~threw /\ currentFiber = NULL

\* --------------------------------------------------------------------- C25
\* the last call evaluated an effect hook again with a list as long as the
\* stored one whose elements are Object.is-equal to the stored ones
SameDepsAgain ==
  /\ last.op = "effect" /\ last.hasDeps /\ last.stored.hasDeps
  /\ Len(last.deps) = Len(last.stored.deps)
  /\ \A i \in 1..Len(last.deps) : ObjectIs(last.deps[i], last.stored.deps[i])

\* C25: evaluating an effect hook again with a dependency list of the same
\* length whose elements are pairwise Object.is-equal to the stored ones, NaN
\* against NaN included, does not mark the effect changed.
C25_SameDepsNotChanged ==
  SameDepsAgain => ~hooksHeap[last.h][last.idx].depsChanged

\* --------------------------------------------------------------------- C26
\* the last pass has been committed and nothing was rendered since; rendered
\* is the list App returned in it
PassCommitted == commits > 0 /\ CommitDone /\ commitPass = passId /\ workInProgress = NULL

\* the node was built for the entry
NodeFor(f, e) ==
  IF e.t = "text" THEN f.tag = "Text" ELSE f.type = e.t /\ f.key = e.k

\* the children of the <ul> were reconciled in the pass, not cloned: the old
\* and the new children array are not both empty (they are never the same
\* array)
UlReconciled ==
  \/ fibers[CommittedUl].alternate = NULL
  \/ rendered # <<>>
  \/ fibers[fibers[CommittedUl].alternate].memoizedProps.kids # <<>>

\* C26: after reconcileChildren the child chain of the parent holds one node
\* for each non-null child of the new list, in list order, and nothing else:
\* the committed <ul> has exactly the children of the list App returned.
C26_ChildChainIsNewList ==
  (PassCommitted /\ UlReconciled) =>
    /\ Len(NewChildren) = Len(rendered)
    /\ \A i \in 1..Len(rendered) :
         i <= Len(NewChildren) => NodeFor(fibers[NewChildren[i]], rendered[i])

\* --------------------------------------------------------------------- C27
\* the nodes reached from f through effectNext, at most fuel of them
RECURSIVE EffectChain(_, _, _)
EffectChain(fs, f, fuel) ==
  IF f = NULL \/ fuel = 0 THEN <<>> ELSE <<f>> \o EffectChain(fs, fs[f].effectNext, fuel - 1)

EffectList == IF root.exists THEN EffectChain(fibers, root.firstEffect, Fuel) ELSE <<>>

\* the walk of the last commit over the effect list did not end
CommitWalkHung == hung /\ Len(steps) > Fuel

\* C27: the effect list of the root is a finite chain that holds no node
\* twice, whatever passes were restarted or preempted, and no commit walks it
\* without end.
C27_EffectListAcyclic ==
  /\ ~CommitWalkHung
  /\ ~hung =>
       /\ Len(EffectList) < Fuel
       /\ \A i \in 1..Len(EffectList) : \A j \in 1..Len(EffectList) :
            i # j => EffectList[i] # EffectList[j]

\* -------------------------------------------------------------------- C28
\* a pass has started from the root and runs or has run
PassBegun == passId > 0

\* C28: whenever a render pass starts from the root (first pass, restart or
\* after a preemption) it finds the effect list of the root empty, and so a
\* commit applies no effect-list entry that another pass recorded.
C28_PassStartsWithEmptyList ==
  /\ PassBegun => foundEffects = NULL
  /\ ~hung => \A i \in DOMAIN applied : applied[i].pushedIn = commitPass
\* -------------------------------------------------------------------- C29
\* The host fires every timer set by schedulePassiveFlush and runs every idle
\* callback it was asked for.
FlushRuns == flushTimers > 0 /\ ~hung /\ flushTimers' = flushTimers - 1
FairEffects == SpecEffects /\ WF_flushTimers(FlushRuns) /\ WF_tick(CallbackRuns)

MaxHookArrays == 5

\* effect hook i of array h was marked first-run or changed by the render of
\* pass p, and pass p is the pass last committed
MarkedByCommitted(h, i, p) ==
  /\ commits > 0 /\ CommitDone /\ commitPass = p /\ workInProgress = NULL
  /\ h \in DOMAIN hooksHeap /\ i \in DOMAIN hooksHeap[h]
  /\ hooksHeap[h][i].htype = "effect" /\ hooksHeap[h][i].mark = p

\* the create of hook i of array h was called for the mark of pass p or of a
\* later pass
CreateInvoked(h, i, p) ==
  \E j \in DOMAIN log :
    log[j].op = "create" /\ log[j].h = h /\ log[j].i = i /\ log[j].mark >= p

\* the commit has applied the Deletion of the node that owns hook array h
OwnerDeleted(h) ==
  \E k \in DOMAIN applied :
    HasBit(applied[k].flags, Deletion) /\ fibers[applied[k].f].hooks = h

\* C29: every effect that the render of a committed pass marked first-run or
\* changed eventually has its create called, unless its node is deleted (or
\* a handler hangs), also when the component is rendered again or another
\* commit happens before the flush timer fires.
C29_MarkedEffectRuns ==
  \A h \in 1..MaxHookArrays : \A i \in 1..2 : \A p \in 1..(MaxUpdates + 1) :
    MarkedByCommitted(h, i, p) ~> (CreateInvoked(h, i, p) \/ OwnerDeleted(h) \/ hung)
\* -------------------------------------------------------------------- C30
\* the creates called so far
CreatesCalled == { j \in DOMAIN log : log[j].op = "create" }

\* C30: no effect create is called for a component instance (a hook array)
\* that no committed pass has rendered: what a discarded or restarted pass
\* registered is not executed on its behalf.
C30_NoCreateForAbandoned ==
  \A j \in CreatesCalled : log[j].h \in committedHooks
\* -------------------------------------------------------------------- C31
\* the step runs a continuation callback although no time-sliced pass is in
\* flight: the pass it was requested for was discarded or is over
StaleCallbackRuns == last'.op = "callback" /\ ~last'.inFlight

\* a pass is driven (a unit of work is performed) or a commit is made
DrivesOrCommits == units' # units \/ commits' # commits \/ passId' # passId

\* C31: at most one continuation callback is outstanding at any time, also
\* after a preemption followed by a new time-sliced update, and a callback
\* requested for a discarded pass neither drives nor commits a later pass.
C31_OneContinuation ==
  [][ /\ callbacks' <= 1
      /\ StaleCallbackRuns => ~DrivesOrCommits ]_vars
\* -------------------------------------------------------------------- C32
\* C32: isRenderingConcurrent is set only while a continuation callback is
\* outstanding, also after an exception has left a time-sliced burst, so a
\* later update on a time-sliced lane always has a callback to render it.
C32_FlagOnlyWithCallback == isRenderingConcurrent => callbacks > 0
\* -------------------------------------------------------------------- C33
\* log[j] and log[k] are calls of the create of the same effect hook
SameEffect(j, k) == log[j].h = log[k].h /\ log[j].i = log[k].i

\* log[j] and log[k], j before k, are two creates of one hook with no create
\* of that hook between them
NextCreate(j, k) ==
  /\ j < k /\ SameEffect(j, k)
  /\ \A n \in (j + 1)..(k - 1) : ~(n \in CreatesCalled /\ SameEffect(j, n))

\* the create log[j] threw, so it left no cleanup
CreateThrew(j) == \E n \in DOMAIN errors : errors[n].op = "create" /\ errors[n].at = j

\* the cleanup of the hook of log[j] is called between log[j] and log[k]
CleanedBetween(j, k) ==
  \E n \in (j + 1)..(k - 1) : log[n].op = "destroy" /\ SameEffect(j, n)

\* C33: the create of an effect is called once for each trigger (the render
\* pass that marked it first-run or changed), and the cleanup of its previous
\* create is called before it, also when an effect function called by a
\* flush makes a synchronous-lane update that renders and commits inside
\* that flush.
C33_CreateOncePerTrigger ==
  \A j \in CreatesCalled : \A k \in CreatesCalled :
    NextCreate(j, k) =>
      /\ log[j].mark # log[k].mark
      /\ ~CreateThrew(j) => CleanedBetween(j, k)
\* -------------------------------------------------------------------- C34
\* what a pass produces: the effect list as the commit walked it, the fiber
\* trees with the committed root, and the host tree
Outcome(s) == [applied |-> s.applied, fibers |-> s.fibers, root |-> s.root, dom |-> s.dom]

\* the pass in flight in s, finished as renderRootConcurrentInternal finishes
\* a synchronous pass: workLoopSync(); commitRoot(currentWipRoot)
SyncFinish(s) == CommitSync(workLoopSync(s, Fuel))

\* the pass of s when it is finished: as committed, or finished synchronously
\* from where it stands
Finished(s) == IF s.workInProgress = NULL THEN s ELSE SyncFinish(s)

\* a time-sliced pass is in flight and the step is a burst of it or a flush
\* timer, not an update
PassGoesOn ==
  /\ isRenderingConcurrent /\ workInProgress # NULL /\ ~hung
  /\ last'.op \in {"callback", "flush"} /\ ~hung' /\ ~threw'

\* C34: wherever the bursts of an uninterrupted time-sliced pass end, the
\* pass produces the effect list, the fiber tree and the host tree that a
\* synchronous pass produces from the same committed tree and description:
\* no burst changes what finishing the pass synchronously would give.
C34_SlicesEqualSync ==
  [][ PassGoesOn =>
        \/ Finished(Now').hung
        \/ Outcome(Finished(Now')) = Outcome(SyncFinish(Now)) ]_vars

\* a time-sliced pass that changed the host tree was committed by a burst
\* that found it half built
C34_SlicedCommit ==
  /\ last.op = "callback" /\ last.inFlight /\ last.wip # currentWipRoot
  /\ ~passSync /\ commitPass = passId /\ workInProgress = NULL /\ ~hung
  /\ \E i \in DOMAIN applied : HasBit(applied[i].flags, Placement)
  /\ \E i \in DOMAIN applied : HasBit(applied[i].flags, Deletion)
\* -------------------------------------------------------------------- C35
\* the places of the walk where node f was begun, and where it was completed
Begins(f) == { k \in DOMAIN walk : walk[k].op = "begin" /\ walk[k].f = f }
Completes(f) == { k \in DOMAIN walk : walk[k].op = "complete" /\ walk[k].f = f }
First(S) == CHOOSE k \in S : \A n \in S : k <= n

\* the nodes above f through return
RECURSIVE Ancestors(_, _, _)
Ancestors(fs, f, fuel) ==
  IF fs[f].return = NULL \/ fuel = 0 THEN {}
  ELSE {fs[f].return} \cup Ancestors(fs, fs[f].return, fuel - 1)

\* the effect list of the pass: as it stands while the pass is rendered, as
\* the commit walked it afterwards
PassEffects ==
  IF commitPass = passId THEN [i \in DOMAIN applied |-> applied[i].f] ELSE EffectList

\* the entries the pass itself put on the list
OwnEntries == { i \in DOMAIN PassEffects : pushPass[PassEffects[i]] = passId }

IsFlagged(f) ==
  HasBit(fibers[f].flags, Placement) \/ HasBit(fibers[f].flags, Update)
    \/ HasBit(fibers[f].flags, Deletion)

BegunBeforeSibling ==
  \A f \in DOMAIN fibers :
    (Begins(f) # {} /\ fibers[f].sibling # NULL /\ Begins(fibers[f].sibling) # {})
      => First(Begins(f)) < First(Begins(fibers[f].sibling))

\* the children of node f
ChildrenOf(f) ==
  LET chain == Chain(fibers, fibers[f].child, Fuel)
  IN { chain[n] : n \in DOMAIN chain }

ChildrenCompletedFirst ==
  \A f \in DOMAIN fibers :
    Completes(f) # {} =>
      \A c \in ChildrenOf(f) :
        Completes(c) # {} /\ First(Completes(c)) < First(Completes(f))

ListInCompletionOrder ==
  /\ \A i \in OwnEntries : \A j \in OwnEntries :
       (i < j /\ Completes(PassEffects[i]) # {} /\ Completes(PassEffects[j]) # {})
         => First(Completes(PassEffects[i])) < First(Completes(PassEffects[j]))
  /\ \A i \in OwnEntries : \A j \in OwnEntries :
       PassEffects[j] \in Ancestors(fibers, PassEffects[i], Fuel) => i < j
  /\ \A f \in DOMAIN fibers :
       (Completes(f) # {} /\ IsFlagged(f)) => pushPass[f] = passId

\* C35: within one render pass every node is begun before its next sibling,
\* the children of a node are all completed before the node is, and the
\* effect list holds the flagged nodes in the order of their completion, a
\* flagged descendant before its flagged ancestor.
C35_DepthFirstPostOrder ==
  (passId > 0 /\ ~hung /\ ~threw /\ Len(walk) < Fuel) =>
    /\ BegunBeforeSibling
    /\ ChildrenCompletedFirst
    /\ ListInCompletionOrder
\* -------------------------------------------------------------------- C36
\* host elements and text leaves: the nodes that own a host object
OwnsHost(fs, f) == fs[f].tag \in {"HostComponent", "Text"}

\* a node and the node it is a working copy of refer to the same host object
PairSharesHost(fs) ==
  \A f \in DOMAIN fs :
    (OwnsHost(fs, f) /\ fs[f].alternate # NULL /\ fs[f].stateNode # NULL
       /\ fs[fs[f].alternate].stateNode # NULL)
      => fs[fs[f].alternate].stateNode = fs[f].stateNode

\* two nodes that refer to one host object are the two nodes of a pair
HostOfOneIdentity(fs) ==
  \A f \in DOMAIN fs : \A g \in DOMAIN fs :
    (OwnsHost(fs, f) /\ OwnsHost(fs, g) /\ f # g
       /\ fs[f].stateNode # NULL /\ fs[f].stateNode = fs[g].stateNode)
      => fs[f].alternate = g /\ fs[g].alternate = f

\* C36: the host object of a host element is created when its node is first
\* completed and never again: a node keeps the host object it has, a working
\* copy refers to the host object of the node it copies, and no host object
\* is referred to by nodes of two identities.
C36_OneHostObjectPerNode ==
  [][ /\ \A f \in DOMAIN fibers :
           (OwnsHost(fibers, f) /\ fibers[f].stateNode # NULL)
             => fibers'[f].stateNode = fibers[f].stateNode
      /\ PairSharesHost(fibers')
      /\ HostOfOneIdentity(fibers') ]_vars
\* an update has been committed in which one host element of the list is a
\* working copy that shares the host object of the node it copies, and
\* another is a new node whose host object the pass created
C36_ReusedAndCreated ==
  /\ AfterFirstUpdate /\ workInProgress = NULL
  /\ \E i \in DOMAIN NewChildren :
       LET f == fibers[NewChildren[i]] IN
         /\ f.tag = "HostComponent" /\ f.alternate # NULL /\ f.stateNode # NULL
         /\ fibers[f.alternate].stateNode = f.stateNode
  /\ \E i \in DOMAIN NewChildren :
       LET f == fibers[NewChildren[i]] IN
         /\ f.tag = "HostComponent" /\ f.alternate = NULL /\ f.stateNode # NULL
         /\ bornPass[NewChildren[i]] = passId
\* -------------------------------------------------------------------- C37
\* the nodes linked from the nodes of S through child and sibling
Linked(fs, S) ==
  ({ fs[f].child : f \in S } \cup { fs[f].sibling : f \in S }) \ {NULL}

RECURSIVE Reach(_, _, _)
\* the nodes reachable from the nodes of S through child and sibling links
Reach(fs, S, fuel) ==
  IF fuel = 0 \/ Linked(fs, S) \subseteq S THEN S
  ELSE Reach(fs, S \cup Linked(fs, S), fuel - 1)

\* the tree under the work-in-progress root and the committed tree
WipTree == Reach(fibers, {currentWipRoot}, Fuel)
CurrentTree == Reach(fibers, {root.current}, Fuel)

\* a render pass is under way
InPass == root.exists /\ workInProgress # NULL /\ currentWipRoot # NULL /\ ~hung /\ ~threw

\* C37: in every state of a render pass, every node reachable through child
\* and sibling links from the work-in-progress root has as its parent pointer
\* the work-in-progress node it is a child of, never a node of the committed
\* tree.
C37_ParentIsWorkInProgress ==
  InPass =>
    \A p \in WipTree : \A c \in ChildrenOf(p) :
      fibers[c].return = p /\ fibers[c].return \notin CurrentTree

\* a pass after the first commit is in flight and has linked, under a working
\* copy that is not the root, two children of which one is a reused working copy
C37_ReusedSubtreeInPass ==
  /\ InPass /\ commits > 0
  /\ \E p \in WipTree \ {currentWipRoot} :
       /\ Cardinality(ChildrenOf(p)) >= 2
       /\ \E c \in ChildrenOf(p) : fibers[c].alternate \in CurrentTree
       /\ fibers[p].alternate \in CurrentTree

\* --------------------------------------------------------------------- C38
\* the two nodes of a pair carry the same variant tag, type and key
PairAgrees(fs, f) ==
  LET a == fs[f].alternate IN
  a # NULL => fs[f].tag = fs[a].tag /\ fs[f].type = fs[a].type /\ fs[f].key = fs[a].key

\* node o is of the type and key of the list entry e
OfEntry(o, e) ==
  IF e.t = "text" THEN o.tag = "Text"
  ELSE o.tag # "Text" /\ o.type = e.t /\ o.key = e.k

\* an update has been rendered and committed and the child chain of the <ul>
\* is the one built from its list
AfterUpdate ==
  /\ last.op = "setState" /\ ~hung /\ ~threw /\ commitPass = passId
  /\ Len(NewChildren) = Len(last.list)

\* new child j is the working copy of an old node of its own type and key, or
\* a node allocated in this pass and marked Placement
CopyOrFresh(j) ==
  LET n == NewChildren[j] IN
  IF fibers[n].alternate # NULL
  THEN OfEntry(fibers[fibers[n].alternate], last.list[j])
  ELSE bornPass[n] = passId /\ HasBit(fibers[n].flags, Placement)

\* new child j has no old child of its type and key at its position nor, for a
\* key, anywhere in the old chain
Unmatched(j) ==
  LET e == last.list[j]
      old == OldChildren
  IN IF e.k # NoKey /\ e.t # "text"
     THEN \A i \in DOMAIN old : ~OfEntry(fibers[old[i]], e)
     ELSE j > Len(old) \/ ~OfEntry(fibers[old[j]], e)

\* C38: the two nodes of every alternate pair have the same variant tag, type
\* and key; a new child whose type or key differs from the old node it is
\* matched against is not given that node's working copy but a node allocated
\* in the pass and marked Placement.
C38_PairsAgreeAndMismatchIsFresh ==
  /\ \A f \in DOMAIN fibers : PairAgrees(fibers, f)
  /\ AfterUpdate =>
       \A j \in DOMAIN last.list :
         /\ CopyOrFresh(j)
         /\ Unmatched(j) => fibers[NewChildren[j]].alternate = NULL

\* an update has replaced an old child by one of another type under the same
\* key and kept another old child
C38_MismatchSeen ==
  /\ AfterUpdate
  /\ \E j \in DOMAIN last.list :
       /\ Unmatched(j) /\ last.list[j].k # NoKey
       /\ \E i \in DOMAIN initialList : initialList[i].k = last.list[j].k
  /\ \E j \in DOMAIN last.list : fibers[NewChildren[j]].alternate # NULL

\* --------------------------------------------------------------------- C39
\* the place of the layout flush among the steps of the last commit
LayoutAt == CHOOSE k \in DOMAIN steps : steps[k].op = "layout"

\* the places in the history of the calls made by that flush
LayoutCalls == LoggedBetween(LayoutAt, LayoutAt + 1)

\* the hook arrays of the fibers the flush found queued, and the first place
\* of each in the queue
QueuedArrays == { layoutFound.arrays[n] : n \in DOMAIN layoutFound.arrays } \ {NULL}
PlaceOf(h) == First({ n \in DOMAIN layoutFound.arrays : layoutFound.arrays[n] = h })

\* the layout hooks <<h, i>> of the queued fibers that were marked first-run or
\* changed when the flush began
FoundMarked ==
  UNION { { <<h, i>> : i \in { j \in DOMAIN layoutFound.hooks[h] :
                                 LET e == layoutFound.hooks[h][j] IN
                                 /\ e.htype = "effect" /\ e.kind = "layout"
                                 /\ (e.firstRun \/ e.depsChanged) } } :
            h \in QueuedArrays }

\* the places where the flush called the create, and the cleanup, of a hook
CreatedAt(q) ==
  { k \in LayoutCalls : log[k].op = "create" /\ log[k].h = q[1] /\ log[k].i = q[2] }
CleanedAt(q) ==
  { k \in LayoutCalls : log[k].op = "destroy" /\ log[k].h = q[1] /\ log[k].i = q[2] }

\* the hook had run before and held a cleanup when the flush began
HeldCleanup(q) ==
  ~layoutFound.hooks[q[1]][q[2]].firstRun /\ layoutFound.hooks[q[1]][q[2]].destroy

\* the queued fibers stand in the order in which the pass began them
QueuedInRenderOrder ==
  \A n, m \in DOMAIN layoutFound.queue :
    (n < m /\ Begins(layoutFound.queue[n]) # {} /\ Begins(layoutFound.queue[m]) # {})
      => First(Begins(layoutFound.queue[n])) < First(Begins(layoutFound.queue[m]))

\* the flush of the last commit called the create of every hook it found
\* marked, once, in queue order and hook order, the cleanup of a hook that held
\* one directly before its create, and nothing else; it left the queue empty
FlushedInOrder ==
  /\ pendingLayoutEffects = <<>>
  /\ \A q \in FoundMarked :
       /\ Cardinality(CreatedAt(q)) = 1
       /\ IF HeldCleanup(q)
          THEN CleanedAt(q) = { First(CreatedAt(q)) - 1 }
          ELSE CleanedAt(q) = {}
  /\ \A q, r \in FoundMarked :
       (PlaceOf(q[1]) < PlaceOf(r[1]) \/ (q[1] = r[1] /\ q[2] < r[2]))
         => First(CreatedAt(q)) < First(CreatedAt(r))
  /\ \A k \in LayoutCalls : \E q \in FoundMarked : k \in CreatedAt(q) \cup CleanedAt(q)

\* the creates of layout effects called so far
LayoutCreates == { k \in CreatesCalled : log[k].kind = "layout" }

\* between two successive creates of one layout effect, of which the first
\* returned a cleanup, that cleanup is called
CleanupBeforeCreate ==
  \A j \in LayoutCreates : \A k \in LayoutCreates :
    (NextCreate(j, k) /\ ~CreateThrew(j)) => CleanedBetween(j, k)

\* C39: the layout effects pending when a commit reaches its flush are all
\* called inside that commit, fiber by fiber in the order in which the render
\* registered the components and hook by hook within a component, and the
\* queue is empty afterwards; the cleanup that the previous create of a layout
\* effect returned is called before its new create.
C39_LayoutEffectsRunInCommit ==
  /\ (CommitDone /\ ~threw /\ commitPass = passId) => FlushedInOrder /\ QueuedInRenderOrder
  /\ ~hung => CleanupBeforeCreate

\* --------------------------------------------------------------------- C40
\* the queues that hold the work item of component c, and how often
HeldIn(p, c) == { i \in 0..4 : InSeq(p.queues[i], c) }
TimesQueued(p, c) ==
  Cardinality({ q \in (0..4) \X (1..Cardinality(Instances)) :
                  q[2] \in DOMAIN p.queues[q[1]] /\ p.queues[q[1]][q[2]] = c })

\* the highest priority among the requests made for c since its update last
\* ran: the lowest index
HighestRequested(p, c) ==
  CHOOSE i \in 0..4 :
    /\ \E n \in DOMAIN p.requested[c] : p.requested[c][n] = i
    /\ \A n \in DOMAIN p.requested[c] : p.requested[c][n] >= i

\* c has been scheduled several times and its update has not run since
SeveralRequests(p, c) == Len(p.requested[c]) >= 2

\* the step is one more request for c
RequestedAgain(c) ==
  sched.requested[c] # <<>> /\ Len(sched'.requested[c]) = Len(sched.requested[c]) + 1

\* C40: a component scheduled several times before its update runs has one
\* queued work item, in one queue, the queue of the highest priority requested
\* among those calls; a further request never moves it to a lower queue.
C40_OneItemInHighestQueue ==
  [][ \A c \in Instances :
        /\ SeveralRequests(sched', c) =>
             /\ TimesQueued(sched', c) = 1
             /\ HeldIn(sched', c) = { HighestRequested(sched', c) }
        /\ RequestedAgain(c) =>
             \A i \in HeldIn(sched, c) : \A j \in HeldIn(sched', c) : j <= i ]_vars

====
